---------------------------- MODULE Spec2Model ----------------------------
(***************************************************************************)
(* Model of the session statistics pipeline of src/src/App.jsx:            *)
(*   isSuccessResult, getConditionValue, computeNumericStats,               *)
(*   buildConditionDistributions (helpers of RecordDetail) and              *)
(*   Stats.processSessions with the ranking sorts of the Stats page.        *)
(*                                                                         *)
(* JavaScript values are tagged records:                                   *)
(*   [t |-> "undefined"], [t |-> "null"], [t |-> "boolean", b |-> ...],    *)
(*   [t |-> "number", q |-> rational], [t |-> "nan"],                      *)
(*   [t |-> "infinity", neg |-> ...], [t |-> "string", s |-> characters],  *)
(*   [t |-> "object", m |-> function from the keys present to values].     *)
(* A string is the sequence of its one-character strings; a finite number  *)
(* is the exact rational [num, den] in lowest terms with den > 0, so the    *)
(* arithmetic of the model is exact where the code's is IEEE double.        *)
(***************************************************************************)
EXTENDS Integers, Sequences, FiniteSets, Bags, TLC

VARIABLES
    hFn,            \* helper under call: the name of the function
    hArg,           \* its argument(s)
    hDone,          \* whether the call has returned
    hRet,           \* the value it returned
    supabase,       \* whether the backend client is configured (module level)
    statsPc,        \* Stats: where its fetch effect stands
    statsData,      \* Stats: the data the sessions query answered with
    statsQueryError,\* Stats: the error the sessions query answered with
    statsSessions,  \* Stats: the effect's const sessions, once the query answered
    loading,        \* Stats: useState loading
    error,          \* Stats: useState error
    globalKpis,     \* Stats: useState globalKpis
    perDogStats,    \* Stats: useState perDogStats
    scentStats,     \* Stats: useState scentStats
    conditionSeries,\* Stats: useState conditionSeries
    dogTableMode,   \* Stats: useState dogTableMode
    detailPc,       \* RecordDetail: where its fetch effect stands
    detailDogData,  \* RecordDetail: the effect's const dogData, once that query answered
    detailSessData, \* RecordDetail: the data the sessions query answered with
    detailQueryError, \* RecordDetail: the error a query answered with
    detailDog,      \* RecordDetail: useState dog
    detailSessions, \* RecordDetail: useState sessions
    detailLoading,  \* RecordDetail: useState loading
    detailError,    \* RecordDetail: useState error
    selectedCondition, \* RecordDetail: useState selectedCondition
    detailId,       \* RecordDetail: useParams id
    detailEarlier,  \* RecordDetail: the bag of fetches of earlier runs still in flight
    path,           \* the router's location
    mounted,        \* what the route's element renders
    authUser,       \* AuthProvider: useState user
    authProfile,    \* AuthProvider: useState profile
    authLoading,    \* AuthProvider: useState loading
    authPc,         \* AuthProvider: where its effect and init stand
    profileLoads,   \* AuthProvider: the bag of loadProfile calls in flight
    ndForm,         \* NewDog: useState form
    ndLoading,      \* NewDog: useState loading
    ndError,        \* NewDog: useState error
    ndPending,      \* NewDog: the inserts in flight of the mounted form
    ndOrphans,      \* NewDog: the inserts in flight of forms since unmounted
    recPc,          \* Records: where its fetch effect stands
    recQueryError,  \* Records: the error the dogs query answered with
    recDogs,        \* Records: useState dogs
    recLoading,     \* Records: useState loading
    recError        \* Records: useState error

helperVars == <<hFn, hArg, hDone, hRet>>
detailVars == <<detailPc, detailDogData, detailSessData, detailQueryError, detailDog, detailSessions, detailLoading,
                detailError, selectedCondition, detailId, detailEarlier>>
authVars == <<path, mounted, authUser, authProfile, authLoading, authPc, profileLoads>>
newDogVars == <<ndForm, ndLoading, ndError, ndPending, ndOrphans>>
recordsVars == <<recPc, recQueryError, recDogs, recLoading, recError>>
appVars == <<authVars, newDogVars, recordsVars>>
statsVars == <<supabase, statsPc, statsData, statsQueryError, statsSessions, loading, error, globalKpis, perDogStats,
               scentStats, conditionSeries, dogTableMode>>
vars == <<helperVars, statsVars, detailVars, appVars>>

---------------------------------------------------------------------------
(* Bounds of the model. *)

MaxLen == 4

MaxStrLen == 3

MaxSessions == 3

\* The size of the long session lists, each a block of successes followed
\* by a block of failures.
MaxBatch == 40

\* The longest cohort handed to buildConditionDistributions directly.
MaxCohort == 2
\* The fetches of earlier route ids still in flight when the id changes.
MaxEarlier == 2
\* The longest answer of a sessions query while the route id changes.
MaxRoutedSessions == 1
\* The inserts of NewDog in flight at one time.
MaxInserts == 2
\* The loadProfile calls in flight at one time.
MaxProfileLoads == 3

---------------------------------------------------------------------------
(* Exact rational numbers. *)

Abs(n) == IF n < 0 THEN -n ELSE n

RECURSIVE GCD(_, _)
GCD(a, b) == IF b = 0 THEN a ELSE GCD(b, a % b)

Rat(n, d) ==
    LET s == IF d < 0 THEN -1 ELSE 1
        g == GCD(Abs(n), Abs(d))
    IN [num |-> (s * n) \div g, den |-> (s * d) \div g]

RInt(n) == [num |-> n, den |-> 1]

RAdd(a, b) == Rat(a.num * b.den + b.num * a.den, a.den * b.den)

RSub(a, b) == Rat(a.num * b.den - b.num * a.den, a.den * b.den)

RMul(a, b) == Rat(a.num * b.num, a.den * b.den)

RDiv(a, b) == Rat(a.num * b.den, a.den * b.num)

RLess(a, b) == a.num * b.den < b.num * a.den

RLeq(a, b) == a.num * b.den <= b.num * a.den

RFloor(a) == a.num \div a.den

RECURSIVE Pow10(_)
Pow10(k) == IF k = 0 THEN 1 ELSE 10 * Pow10(k - 1)

---------------------------------------------------------------------------
(* Numbers as the IEEE 754 doubles the program holds.  A number read from  *)
(* data is held as the decimal it was written as, an exact ratio, and      *)
(* stands for the double nearest to it; a number computed by the program   *)
(* is held as a double: a sign, a significand of 53 binary digits and an   *)
(* exponent, the value being sig * 2^exp.  Whole numbers of any size are   *)
(* rows of limbs of LimbBits binary digits, the lowest first, without a    *)
(* leading zero limb; <<>> is 0.  The doubles are the normal ones: the     *)
(* values of this program stay far from overflow and underflow.            *)

LimbBits == 13

RECURSIVE Power2(_)
Power2(n) == IF n = 0 THEN 1 ELSE 2 * Power2(n - 1)

Limb == Power2(LimbBits)

\* The binary digits of a natural number, 0 for 0.
RECURSIVE BitLength(_)
BitLength(n) == IF n = 0 THEN 0 ELSE 1 + BitLength(n \div 2)

RECURSIVE BigTrim(_)
BigTrim(a) ==
    IF a # <<>> /\ a[Len(a)] = 0 THEN BigTrim(SubSeq(a, 1, Len(a) - 1)) ELSE a

RECURSIVE BigOfNat(_)
BigOfNat(n) == IF n = 0 THEN <<>> ELSE <<n % Limb>> \o BigOfNat(n \div Limb)

\* The number of a row of limbs, for a number below 2^31.
RECURSIVE BigToNat(_)
BigToNat(a) == IF a = <<>> THEN 0 ELSE a[1] + Limb * BigToNat(Tail(a))

BigLimb(a, i) == IF i <= Len(a) THEN a[i] ELSE 0

\* A row of entries of any sign and size plus c, brought into limbs.
RECURSIVE BigCarry(_, _)
BigCarry(entries, c) ==
    IF entries = <<>> THEN BigOfNat(c)
    ELSE <<(entries[1] + c) % Limb>>
         \o BigCarry(Tail(entries), (entries[1] + c) \div Limb)

BigAdd(a, b) ==
    BigTrim(BigCarry([i \in 1..IF Len(a) < Len(b) THEN Len(b) ELSE Len(a) |->
                         BigLimb(a, i) + BigLimb(b, i)], 0))

\* a - b for a >= b.
BigSub(a, b) ==
    BigTrim(BigCarry([i \in 1..Len(a) |-> a[i] - BigLimb(b, i)], 0))

\* a * n for 0 <= n < 2^17.
BigMulSmall(a, n) == BigTrim(BigCarry([i \in 1..Len(a) |-> a[i] * n], 0))

RECURSIVE BigMul(_, _)
BigMul(a, b) ==
    IF b = <<>> THEN <<>>
    ELSE BigAdd(BigMulSmall(a, b[1]), BigTrim(<<0>> \o BigMul(a, Tail(b))))

\* -1, 0 or 1 as a is below, equal to or above b, decided at limb i and below.
RECURSIVE BigCompareFrom(_, _, _)
BigCompareFrom(a, b, i) ==
    IF i = 0 THEN 0
    ELSE IF a[i] < b[i] THEN -1
    ELSE IF a[i] > b[i] THEN 1
    ELSE BigCompareFrom(a, b, i - 1)

BigCompare(a, b) ==
    IF Len(a) < Len(b) THEN -1
    ELSE IF Len(a) > Len(b) THEN 1
    ELSE BigCompareFrom(a, b, Len(a))

BigBitLength(a) ==
    IF a = <<>> THEN 0 ELSE (Len(a) - 1) * LimbBits + BitLength(a[Len(a)])

\* a * 2^k
BigShiftLeft(a, k) ==
    IF a = <<>> THEN <<>>
    ELSE [i \in 1..(k \div LimbBits) |-> 0] \o BigMulSmall(a, Power2(k % LimbBits))

\* The limbs of a / n from limb i down, for 0 < n < 2^17, rem carried in.
RECURSIVE BigDivSmallFrom(_, _, _, _)
BigDivSmallFrom(a, n, i, rem) ==
    IF i = 0 THEN [quot |-> <<>>, rem |-> rem]
    ELSE LET below == BigDivSmallFrom(a, n, i - 1, (rem * Limb + a[i]) % n)
         IN [quot |-> Append(below.quot, (rem * Limb + a[i]) \div n), rem |-> below.rem]

\* quot = floor(a / n) and rem = a mod n, for 0 < n < 2^17.
BigDivSmall(a, n) ==
    LET r == BigDivSmallFrom(a, n, Len(a), 0)
    IN [quot |-> BigTrim(r.quot), rem |-> r.rem]

\* floor(a / 2^k)
BigShiftRight(a, k) ==
    IF k \div LimbBits >= Len(a) THEN <<>>
    ELSE BigDivSmall(SubSeq(a, k \div LimbBits + 1, Len(a)), Power2(k % LimbBits)).quot

\* Whether a is a multiple of 2^k.
BigDivisible(a, k) == BigShiftLeft(BigShiftRight(a, k), k) = a

One == <<1>>

\* A double: sig is 0 (<<>>, with exp 0 and neg FALSE) or has 53 digits.
Dbl(neg, sig, exp) == [neg |-> neg, sig |-> sig, exp |-> exp]

DZero == Dbl(FALSE, <<>>, 0)

\* Long division of a by d, limb by limb from the highest.  The limb of
\* the quotient is estimated from the two highest limbs of what is left
\* and the highest limb of d, which is at least Limb / 2, and is then at
\* most 2 too high.
LimbEstimate(r, d) ==
    IF Len(r) < Len(d) THEN 0
    ELSE IF (BigLimb(r, Len(d) + 1) * Limb + r[Len(d)]) \div d[Len(d)] > Limb - 1
    THEN Limb - 1
    ELSE (BigLimb(r, Len(d) + 1) * Limb + r[Len(d)]) \div d[Len(d)]

RECURSIVE CorrectedLimb(_, _, _)
CorrectedLimb(r, d, q) ==
    IF BigCompare(BigMulSmall(d, q), r) > 0 THEN CorrectedLimb(r, d, q - 1) ELSE q

RECURSIVE DivideFrom(_, _, _, _)
WithLimb(below, limb) == [quot |-> Append(below.quot, limb), rem |-> below.rem]

DivideStep(a, d, i, r, q) ==
    WithLimb(DivideFrom(a, d, i - 1, BigSub(r, BigMulSmall(d, q))), q)

DivideLimb(a, d, i, r) == DivideStep(a, d, i, r, CorrectedLimb(r, d, LimbEstimate(r, d)))

\* The limbs of a / d from limb i of a down, rem being what is left of the
\* limbs above.
DivideFrom(a, d, i, rem) ==
    IF i = 0 THEN [quot |-> <<>>, rem |-> rem]
    ELSE DivideLimb(a, d, i, BigTrim(<<a[i]>> \o rem))

\* quot = floor(a / d), a leading zero limb kept, and rem = a mod d, for
\* a >= d and a d whose highest limb is at least Limb / 2: the highest
\* limbs of a, one fewer than d has, are below d and are what is left at
\* the start.
Divide(a, d) ==
    DivideFrom(a, d, Len(a) - Len(d) + 1, SubSeq(a, Len(a) - Len(d) + 2, Len(a)))

\* The quotient as a whole number, and the doubled remainder.
Halves(q) == [quot |-> BigTrim(q.quot), rem |-> BigMulSmall(q.rem, 2)]

\* The 53 digits of n / d for d <= n < 2d, and what the division left,
\* doubled; n and d are first doubled until the highest limb of d is at
\* least Limb / 2.
QuotientAt(n, d, shift) ==
    Halves(Divide(BigShiftLeft(n, 52 + shift), BigShiftLeft(d, shift)))

\* Round to nearest, ties to even, on what the division by d left.
RoundedUp(q, d) ==
    IF BigCompare(q.rem, d) > 0 \/ (q.rem = d /\ q.quot[1] % 2 = 1)
    THEN BigAdd(q.quot, One)
    ELSE q.quot

\* A significand that rounding took to 2^53 is 2^52 with the next exponent.
Renormalised(neg, sig, exp) ==
    IF BigBitLength(sig) = 54 THEN Dbl(neg, BigShiftRight(sig, 1), exp + 1)
    ELSE Dbl(neg, sig, exp)

\* The double nearest to (n / d) * 2^e for d <= n < 2d.
RoundAligned(neg, n, d, e) ==
    Renormalised(neg,
                 RoundedUp(QuotientAt(n, d, LimbBits - BitLength(d[Len(d)])),
                           BigShiftLeft(d, LimbBits - BitLength(d[Len(d)]))),
                 e - 52)

\* The double nearest to (n / d) * 2^e for d / 2 < n < 2d.
RoundNear(neg, n, d, e) ==
    IF BigCompare(n, d) >= 0 THEN RoundAligned(neg, n, d, e)
    ELSE RoundAligned(neg, BigMulSmall(n, 2), d, e - 1)

\* Round to nearest, ties to even, on the digits cut from a whole number:
\* cut is the number they write and half the weight of the first of them.
CutRoundsUp(kept, cut, half) ==
    BigCompare(cut, half) > 0 \/ (cut = half /\ kept[1] % 2 = 1)

RoundCut(neg, n, kept, k, e) ==
    Renormalised(neg,
                 IF CutRoundsUp(kept, BigSub(n, BigShiftLeft(kept, k)),
                                BigShiftLeft(One, k - 1))
                 THEN BigAdd(kept, One) ELSE kept,
                 e + k)

\* The double nearest to n * 2^e for a whole number n > 0 of len digits.
RoundWhole(neg, n, len, e) ==
    IF len <= 53 THEN Dbl(neg, BigShiftLeft(n, 53 - len), e - (53 - len))
    ELSE RoundCut(neg, n, BigShiftRight(n, len - 53), len - 53, e)

\* The double nearest to (n / d) * 2^e, for whole numbers n >= 0 and d > 0:
\* the one with fewer digits is brought to the length of the other.
RoundRatio(neg, n, d, e) ==
    IF n = <<>> THEN DZero
    ELSE IF d = One THEN RoundWhole(neg, n, BigBitLength(n), e)
    ELSE IF BigBitLength(n) >= BigBitLength(d)
    THEN RoundNear(neg, n, BigShiftLeft(d, BigBitLength(n) - BigBitLength(d)),
                   e + (BigBitLength(n) - BigBitLength(d)))
    ELSE RoundNear(neg, BigShiftLeft(n, BigBitLength(d) - BigBitLength(n)), d,
                   e - (BigBitLength(d) - BigBitLength(n)))

\* The double nearest to a ratio of machine integers: a decimal read from
\* data, or a whole number of the program.
DOfRat(q) == RoundRatio(q.num < 0, BigOfNat(Abs(q.num)), BigOfNat(q.den), 0)

DOfInt(n) == DOfRat(RInt(n))

\* The double of a number in either form.
DOf(x) == IF "num" \in DOMAIN x THEN DOfRat(x) ELSE x

DNegate(x) == IF x.sig = <<>> THEN x ELSE Dbl(~x.neg, x.sig, x.exp)

\* |a| + |b| or |a| - |b| of two significands brought to the exponent e,
\* rounded; the sign is that of the larger.
AddAligned(aNeg, a, bNeg, b, e) ==
    IF aNeg = bNeg THEN RoundRatio(aNeg, BigAdd(a, b), One, e)
    ELSE IF BigCompare(a, b) >= 0 THEN RoundRatio(aNeg, BigSub(a, b), One, e)
    ELSE RoundRatio(bNeg, BigSub(b, a), One, e)

AddAt(a, b, e) ==
    AddAligned(a.neg, BigShiftLeft(a.sig, a.exp - e),
               b.neg, BigShiftLeft(b.sig, b.exp - e), e)

\* a + b
DAdd(a, b) ==
    IF a.sig = <<>> THEN b
    ELSE IF b.sig = <<>> THEN a
    ELSE AddAt(a, b, IF a.exp < b.exp THEN a.exp ELSE b.exp)

\* a - b
DSub(a, b) == DAdd(a, DNegate(b))

\* a * b
DMul(a, b) == RoundRatio(a.neg # b.neg, BigMul(a.sig, b.sig), One, a.exp + b.exp)

\* a / b for b other than 0.
DDiv(a, b) == RoundRatio(a.neg # b.neg, a.sig, b.sig, a.exp - b.exp)

\* -1, 0 or 1 as |a| is below, equal to or above |b|, both brought to the
\* exponent e.
CompareAt(a, b, e) ==
    BigCompare(BigShiftLeft(a.sig, a.exp - e), BigShiftLeft(b.sig, b.exp - e))

CompareMagnitudes(a, b) == CompareAt(a, b, IF a.exp < b.exp THEN a.exp ELSE b.exp)

\* a < b
DLess(a, b) ==
    IF a.neg # b.neg THEN a.neg
    ELSE IF a.neg THEN CompareMagnitudes(a, b) > 0
    ELSE CompareMagnitudes(a, b) < 0

\* The whole part of |x| and whether x has digits after the point.
WholePart(x) ==
    IF x.exp >= 0 THEN [whole |-> BigShiftLeft(x.sig, x.exp), exact |-> TRUE]
    ELSE [whole |-> BigShiftRight(x.sig, 0 - x.exp),
          exact |-> BigDivisible(x.sig, 0 - x.exp)]

FloorOfParts(neg, w) ==
    RoundRatio(neg, IF neg /\ ~w.exact THEN BigAdd(w.whole, One) ELSE w.whole, One, 0)

\* Math.floor
MathFloor(x) == FloorOfParts(x.neg, WholePart(x))

\* The machine integer of a double that is a whole number below 2^30.
DToInt(x) == (IF x.neg THEN -1 ELSE 1) * BigToNat(WholePart(x).whole)

\* floor(|x| * scale + 1/2) for a whole number 0 < scale < 2^17.
ScaledAndRounded(x, scale) ==
    IF x.exp >= 0 THEN BigShiftLeft(BigMulSmall(x.sig, scale), x.exp)
    ELSE BigShiftRight(BigAdd(BigMulSmall(x.sig, scale),
                              BigShiftLeft(One, 0 - x.exp - 1)), 0 - x.exp)

\* ceil(|x| - 1/2): the whole number nearest to |x|, a tie going down.
RoundedHalfDown(x) ==
    IF x.exp >= 0 THEN BigShiftLeft(x.sig, x.exp)
    ELSE BigShiftRight(BigAdd(x.sig, BigSub(BigShiftLeft(One, 0 - x.exp - 1), One)),
                       0 - x.exp)

\* Math.round of a double below 2^30: the whole number nearest to x, a tie
\* going up.
MathRound(x) ==
    IF x.neg THEN 0 - BigToNat(RoundedHalfDown(x)) ELSE BigToNat(ScaledAndRounded(x, 1))

---------------------------------------------------------------------------
(* JavaScript values and coercions. *)

Undefined == [t |-> "undefined"]

Null == [t |-> "null"]

NaN == [t |-> "nan"]

Infinity(neg) == [t |-> "infinity", neg |-> neg]

Bool(b) == [t |-> "boolean", b |-> b]

Num(q) == [t |-> "number", q |-> q]

Str(s) == [t |-> "string", s |-> s]

Obj(m) == [t |-> "object", m |-> m]

EmptyMap == [k \in {} |-> Undefined]

\* ToBoolean, as used by `x || y` and `!x`.
Truthy(v) ==
    CASE v.t = "undefined" -> FALSE
      [] v.t = "null" -> FALSE
      [] v.t = "nan" -> FALSE
      [] v.t = "boolean" -> v.b
      [] v.t = "number" -> v.q.num # 0
      [] v.t = "string" -> v.s # <<>>
      [] OTHER -> TRUE

\* x || y
Or(x, y) == IF Truthy(x) THEN x ELSE y

\* obj?.[key]: undefined for a missing key and for a value without own keys.
Get(v, key) ==
    IF v.t = "object" /\ key \in DOMAIN v.m THEN v.m[key] ELSE Undefined

Digits == <<"0", "1", "2", "3", "4", "5", "6", "7", "8", "9">>

IsDigit(c) == \E i \in 1..10 : Digits[i] = c

DigitVal(c) == (CHOOSE i \in 1..10 : Digits[i] = c) - 1

\* The upper-case letters of the characters a string of this module can
\* hold (those up to U+00FF), and their lower-case letters in the same order.
UpperCase == <<"A", "B", "C", "D", "E", "F", "G", "H", "I", "J", "K", "L", "M",
               "N", "O", "P", "Q", "R", "S", "T", "U", "V", "W", "X", "Y", "Z",
               "À", "Á", "Â", "Ã", "Ä", "Å", "Æ", "Ç", "È", "É", "Ê", "Ë", "Ì",
               "Í", "Î", "Ï", "Ð", "Ñ", "Ò", "Ó", "Ô", "Õ", "Ö", "Ø", "Ù", "Ú",
               "Û", "Ü", "Ý", "Þ">>

LowerCase == <<"a", "b", "c", "d", "e", "f", "g", "h", "i", "j", "k", "l", "m",
               "n", "o", "p", "q", "r", "s", "t", "u", "v", "w", "x", "y", "z",
               "à", "á", "â", "ã", "ä", "å", "æ", "ç", "è", "é", "ê", "ë", "ì",
               "í", "î", "ï", "ð", "ñ", "ò", "ó", "ô", "õ", "ö", "ø", "ù", "ú",
               "û", "ü", "ý", "þ">>

ToLowerChar(c) ==
    IF \E i \in 1..Len(UpperCase) : UpperCase[i] = c
    THEN LowerCase[CHOOSE i \in 1..Len(UpperCase) : UpperCase[i] = c]
    ELSE c

\* Variant: the text compared as written, without lower-casing.
ToLowerCaseSkipped(s) == s

\* String.prototype.toLowerCase
ToLowerCase(s) == [i \in 1..Len(s) |-> ToLowerChar(s[i])]

RECURSIVE NatToString(_)
NatToString(n) ==
    IF n < 10 THEN <<Digits[n + 1]>>
    ELSE NatToString(n \div 10) \o <<Digits[(n % 10) + 1]>>

\* The decimal digits of rem/den after the point, until the remainder is 0.
RECURSIVE FracDigits(_, _)
FracDigits(rem, den) ==
    IF rem = 0 THEN <<>>
    ELSE <<Digits[((10 * rem) \div den) + 1]>> \o FracDigits((10 * rem) % den, den)

\* The zeros a row of digits starts with.
RECURSIVE LeadingZeros(_)
LeadingZeros(digits) ==
    IF digits # <<>> /\ Head(digits) = "0" THEN 1 + LeadingZeros(Tail(digits)) ELSE 0

\* d[.ddd]e-n
Exponential(digits, n) ==
    <<Head(digits)>> \o (IF Len(digits) > 1 THEN <<".">> \o Tail(digits) ELSE <<>>)
    \o <<"e", "-">> \o NatToString(n)

\* The digits of a number with the whole part ip and the digits fp after
\* the point: as they are from 10^-6 on, in exponent notation below.
Notation(ip, fp) ==
    IF fp = <<>> THEN ip
    ELSE IF ip = <<"0">> /\ LeadingZeros(fp) >= 6
    THEN Exponential(SubSeq(fp, LeadingZeros(fp) + 1, Len(fp)), LeadingZeros(fp) + 1)
    ELSE ip \o <<".">> \o fp

\* Number::toString of a number read from data, a decimal below 10^21 whose
\* digits are the shortest that read back as its double.
NumberToString(q) ==
    (IF q.num < 0 THEN <<"-">> ELSE <<>>)
    \o Notation(NatToString(Abs(q.num) \div q.den),
                FracDigits(Abs(q.num) % q.den, q.den))

\* String(v)
String(v) ==
    CASE v.t = "undefined" -> <<"u", "n", "d", "e", "f", "i", "n", "e", "d">>
      [] v.t = "null" -> <<"n", "u", "l", "l">>
      [] v.t = "nan" -> <<"N", "a", "N">>
      [] v.t = "infinity" ->
            (IF v.neg THEN <<"-">> ELSE <<>>)
            \o <<"I", "n", "f", "i", "n", "i", "t", "y">>
      [] v.t = "boolean" ->
            IF v.b THEN <<"t", "r", "u", "e">> ELSE <<"f", "a", "l", "s", "e">>
      [] v.t = "number" -> NumberToString(v.q)
      [] v.t = "string" -> v.s
      [] OTHER -> <<"[", "o", "b", "j", "e", "c", "t", " ",
                    "O", "b", "j", "e", "c", "t", "]">>

\* StrWhiteSpaceChar, as far as a string of this module can hold it: the
\* space, tab, line feed, carriage return, form feed and U+00A0.
IsWhiteSpace(c) == c \in {" ", "\t", "\n", "\r", "\f", " "}

RECURSIVE SkipWhiteSpace(_)
SkipWhiteSpace(s) ==
    IF s # <<>> /\ IsWhiteSpace(Head(s)) THEN SkipWhiteSpace(Tail(s)) ELSE s

RECURSIVE DigitRun(_)
DigitRun(s) ==
    IF s # <<>> /\ IsDigit(Head(s)) THEN <<Head(s)>> \o DigitRun(Tail(s)) ELSE <<>>

RECURSIVE DigitsValue(_, _)
DigitsValue(s, acc) ==
    IF s = <<>> THEN acc ELSE DigitsValue(Tail(s), 10 * acc + DigitVal(Head(s)))

Drop(s, n) == SubSeq(s, n + 1, Len(s))

IsPrefix(p, s) == Len(p) <= Len(s) /\ SubSeq(s, 1, Len(p)) = p

\* parseFloat: the longest prefix of the trimmed text that is a decimal
\* literal ([+-] digits [. digits] [e [+-] digits], or [+-] Infinity); NaN
\* when there is none.  The stages follow the literal from left to right.
ExponentDigits(ep, eNeg) ==
    IF ep = <<>> THEN RInt(1)
    ELSE IF eNeg THEN Rat(1, Pow10(DigitsValue(ep, 0)))
    ELSE RInt(Pow10(DigitsValue(ep, 0)))

ExponentSigned(r) ==
    IF r # <<>> /\ Head(r) \in {"+", "-"}
    THEN ExponentDigits(DigitRun(Tail(r)), Head(r) = "-")
    ELSE ExponentDigits(DigitRun(r), FALSE)

ExponentScale(r) ==
    IF r # <<>> /\ Head(r) \in {"e", "E"} THEN ExponentSigned(Tail(r)) ELSE RInt(1)

Signed(neg, abs) == Num(IF neg THEN RSub(RInt(0), abs) ELSE abs)

ParseMantissa(ip, fp, rest, neg) ==
    IF ip = <<>> /\ fp = <<>> THEN NaN
    ELSE Signed(neg, RMul(Rat(DigitsValue(ip \o fp, 0), Pow10(Len(fp))),
                          ExponentScale(rest)))

ParseFractionDigits(ip, fp, afterDot, neg) ==
    ParseMantissa(ip, fp, Drop(afterDot, Len(fp)), neg)

ParseFraction(ip, rest, neg) ==
    IF rest # <<>> /\ Head(rest) = "."
    THEN ParseFractionDigits(ip, DigitRun(Tail(rest)), Tail(rest), neg)
    ELSE ParseMantissa(ip, <<>>, rest, neg)

ParseInteger(u, ip, neg) == ParseFraction(ip, Drop(u, Len(ip)), neg)

ParseMagnitude(u, neg) ==
    IF IsPrefix(<<"I", "n", "f", "i", "n", "i", "t", "y">>, u) THEN Infinity(neg)
    ELSE ParseInteger(u, DigitRun(u), neg)

ParseSign(t) ==
    IF t # <<>> /\ Head(t) \in {"+", "-"}
    THEN ParseMagnitude(Tail(t), Head(t) = "-")
    ELSE ParseMagnitude(t, FALSE)

parseFloat(str) == ParseSign(SkipWhiteSpace(str))

\* Variant: typeof v === "number", which NaN and the infinities pass.
NumberIsFiniteTypeofOnly(v) == v.t \in {"number", "nan", "infinity"}

\* Number.isFinite
NumberIsFinite(v) == v.t = "number"

---------------------------------------------------------------------------
(* Helpers of the dog detail page. *)

Success == <<"s", "u", "c", "c", "e", "s", "s">>

isSuccessResult(result) ==
    ToLowerCase(String(Or(result, Str(<<>>)))) = Success

\* Line 1678: if (typeof v === "string") v = parseFloat(v)
ParseIfString(raw) == IF raw.t = "string" THEN parseFloat(raw.s) ELSE raw

\* Line 1679
FiniteOrNull(v) == IF NumberIsFinite(v) THEN v ELSE Null

getConditionValue(session, key) ==
    FiniteOrNull(ParseIfString(Get(Or(session.conditions, Obj(EmptyMap)), key)))

Arr(a) == [t |-> "array", a |-> a]

\* values.length === 0, for an array
IsEmptyArray(values) == values.t = "array" /\ Len(values.a) = 0

\* a - b < 0.  The difference of two doubles has the sign of the difference
\* of their values; for two values read from the data that is the sign of
\* the difference of the decimals.
NumLess(a, b) ==
    IF "num" \in DOMAIN a /\ "num" \in DOMAIN b THEN RLess(a, b)
    ELSE DLess(DOf(a), DOf(b))

\* Array.prototype.sort is stable: an element goes after the elements that
\* compare equal to it. Here with the comparator (a, b) => a - b.
RECURSIVE InsertAscending(_, _)
InsertAscending(x, s) ==
    IF s = <<>> THEN <<x>>
    ELSE IF NumLess(x, Head(s)) THEN <<x>> \o s
    ELSE <<Head(s)>> \o InsertAscending(x, Tail(s))

RECURSIVE SortAscending(_)
SortAscending(s) ==
    IF s = <<>> THEN <<>>
    ELSE InsertAscending(s[Len(s)], SortAscending(SubSeq(s, 1, Len(s) - 1)))

\* sorted.reduce((acc, v) => acc + v, 0): each addition rounds to a double.
RECURSIVE SumFrom(_, _)
SumFrom(s, acc) ==
    IF s = <<>> THEN acc ELSE SumFrom(Tail(s), DAdd(acc, DOf(Head(s))))

\* The median of an ascending array (0-based indexes of the code, plus one).
MedianOf(sorted) ==
    LET n == Len(sorted)
    IN IF n % 2 = 1 THEN sorted[((n - 1) \div 2) + 1]
       ELSE DDiv(DAdd(DOf(sorted[(n \div 2 - 1) + 1]), DOf(sorted[(n \div 2) + 1])),
                 DOfInt(2))

\* Variant: a value whose count equals the best count replaces the mode.
RECURSIVE ModeLoopLastWins(_, _, _, _, _)
ModeLoopLastWins(sorted, i, freq, mode, bestCount) ==
    IF i > Len(sorted) THEN mode
    ELSE LET v == sorted[i]
             c == (IF v \in DOMAIN freq THEN freq[v] ELSE 0) + 1
             freq2 == [k \in (DOMAIN freq) \cup {v} |-> IF k = v THEN c ELSE freq[k]]
         IN IF c >= bestCount
            THEN ModeLoopLastWins(sorted, i + 1, freq2, v, c)
            ELSE ModeLoopLastWins(sorted, i + 1, freq2, mode, bestCount)

\* The forEach over sorted that keeps the frequency map, mode and bestCount.
RECURSIVE ModeLoop(_, _, _, _, _)
ModeLoop(sorted, i, freq, mode, bestCount) ==
    IF i > Len(sorted) THEN mode
    ELSE LET v == sorted[i]
             c == (IF v \in DOMAIN freq THEN freq[v] ELSE 0) + 1
             freq2 == [k \in (DOMAIN freq) \cup {v} |-> IF k = v THEN c ELSE freq[k]]
         IN IF c > bestCount
            THEN ModeLoop(sorted, i + 1, freq2, v, c)
            ELSE ModeLoop(sorted, i + 1, freq2, mode, bestCount)

\* Variant: the sum taken from the second element on.
MeanDroppingFirst(sorted) == DDiv(SumFrom(Tail(sorted), DZero), DOfInt(Len(sorted)))

\* sum / n
MeanOf(sorted) == DDiv(SumFrom(sorted, DZero), DOfInt(Len(sorted)))

\* Variant: the copy left in input order.
SortedCopyUnsorted(values) == values.a

\* [...values].sort((a, b) => a - b)
SortedCopy(values) == SortAscending(values.a)

\* Variant: a summary of zeros for an empty or missing collection.
computeNumericStatsOfZeros(values) ==
    IF ~Truthy(values) \/ IsEmptyArray(values)
    THEN [t |-> "object", mean |-> RInt(0), median |-> RInt(0), mode |-> RInt(0)]
    ELSE LET sorted == SortedCopy(values)
         IN [t |-> "object",
             mean |-> MeanOf(sorted),
             median |-> MedianOf(sorted),
             mode |-> ModeLoop(sorted, 1, [k \in {} |-> 0], sorted[1], 0)]

computeNumericStats(values) ==
    IF ~Truthy(values) \/ IsEmptyArray(values) THEN Null
    ELSE LET sorted == SortedCopy(values)
         IN [t |-> "object",
             mean |-> MeanOf(sorted),
             median |-> MedianOf(sorted),
             mode |-> ModeLoop(sorted, 1, [k \in {} |-> 0], sorted[1], 0)]

DefaultBinCount == 6

\* The decimal digits of a whole number, none for 0.
RECURSIVE BigDigits(_)
BigDigits(n) ==
    IF n = <<>> THEN <<>>
    ELSE BigDigits(BigDivSmall(n, 10).quot) \o <<Digits[BigDivSmall(n, 10).rem + 1]>>

PadLeft(s, count) ==
    IF Len(s) >= count THEN s ELSE [i \in 1..(count - Len(s)) |-> "0"] \o s

PointBefore(s, digits) ==
    IF digits = 0 THEN s
    ELSE SubSeq(s, 1, Len(s) - digits) \o <<".">> \o SubSeq(s, Len(s) - digits + 1, Len(s))

\* Number.prototype.toFixed(digits) of a double below 10^21: the whole
\* number n nearest to |x| * 10^digits, the larger of two, written with
\* the point before its last digits, and the sign of a negative x kept.
ToFixed(x, digits) ==
    (IF x.neg /\ x.sig # <<>> THEN <<"-">> ELSE <<>>)
    \o PointBefore(PadLeft(BigDigits(ScaledAndRounded(x, Pow10(digits))), digits + 1),
                   digits)

\* x.toFixed(1)
ToFixed1(q) == ToFixed(DOf(q), 1)

\* x.toFixed(2)
ToFixed2(q) == ToFixed(DOf(q), 2)

KeepPresent(v, rest) == IF v # Null THEN <<v.q>> \o rest ELSE rest

\* sessions.map((s) => getConditionValue(s, key)).filter((v) => v !== null)
RECURSIVE PresentValues(_, _)
PresentValues(sessions, key) ==
    IF sessions = <<>> THEN <<>>
    ELSE KeepPresent(getConditionValue(Head(sessions), key),
                     PresentValues(Tail(sessions), key))

Smaller(a, b) == IF RLess(b, a) THEN b ELSE a

Larger(a, b) == IF RLess(a, b) THEN b ELSE a

\* Math.min(...allVals), for a non-empty array
RECURSIVE MathMin(_)
MathMin(vals) ==
    IF Len(vals) = 1 THEN vals[1] ELSE Smaller(vals[1], MathMin(Tail(vals)))

\* Math.max(...allVals), for a non-empty array
RECURSIVE MathMax(_)
MathMax(vals) ==
    IF Len(vals) = 1 THEN vals[1] ELSE Larger(vals[1], MathMax(Tail(vals)))

\* Lines 1741-1742: 1 for a single bin, else (max - min) / count || 1.
StepOrOne(x) == IF x.sig # <<>> THEN x ELSE DOfInt(1)

\* Variant: the range divided by one more than the bin count.
StepOfOneMoreBin(min, max, effectiveBinCount) ==
    IF effectiveBinCount = 1 THEN DOfInt(1)
    ELSE StepOrOne(DDiv(DSub(DOf(max), DOf(min)), DOfInt(effectiveBinCount + 1)))

StepOf(min, max, effectiveBinCount) ==
    IF effectiveBinCount = 1 THEN DOfInt(1)
    ELSE StepOrOne(DDiv(DSub(DOf(max), DOf(min)), DOfInt(effectiveBinCount)))

\* Lines 1744-1750, Array.from({ length: effectiveBinCount }, ...): the
\* bins 0..count-1 of the code, bin i being element i + 1 here.
RECURSIVE MakeBinsUpTo(_, _, _, _, _)
MakeBinsUpTo(min, max, effectiveBinCount, step, count) ==
    IF count = 0 THEN <<>>
    ELSE Append(MakeBinsUpTo(min, max, effectiveBinCount, step, count - 1),
                [start |-> DAdd(min, DMul(DOfInt(count - 1), step)),
                 end |-> IF count - 1 = effectiveBinCount - 1 THEN max
                         ELSE DAdd(min, DMul(DOfInt(count), step)),
                 success |-> 0,
                 fail |-> 0])

MakeBins(min, max, effectiveBinCount, step) ==
    MakeBinsUpTo(DOf(min), max, effectiveBinCount, step, effectiveBinCount)

IntMax(a, b) == IF a < b THEN b ELSE a

IntMin(a, b) == IF a < b THEN a ELSE b

\* Math.floor((v - min) / step), the subtraction and the division each
\* rounded to a double.
FloorOfSteps(v, min, step) ==
    DToInt(MathFloor(DDiv(DSub(DOf(v), DOf(min)), step)))

\* Variant: the index left unclamped above.
getIndexUnclamped(v, min, step, effectiveBinCount) ==
    IF effectiveBinCount = 1 THEN 0
    ELSE IntMax(0, FloorOfSteps(v, min, step))

\* Lines 1752-1756: the 0-based index of the bin of v.
getIndex(v, min, step, effectiveBinCount) ==
    IF effectiveBinCount = 1 THEN 0
    ELSE IntMax(0, IntMin(effectiveBinCount - 1, FloorOfSteps(v, min, step)))

AddSuccess(bins, idx) == [bins EXCEPT ![idx + 1].success = @ + 1]

\* Variant: a failure value counted as a success.
AddFailToSuccess(bins, idx) == [bins EXCEPT ![idx + 1].success = @ + 1]

AddFail(bins, idx) == [bins EXCEPT ![idx + 1].fail = @ + 1]

\* Lines 1758-1761
RECURSIVE CountSuccess(_, _, _, _, _)
CountSuccess(bins, vals, min, step, effectiveBinCount) ==
    IF vals = <<>> THEN bins
    ELSE CountSuccess(AddSuccess(bins, getIndex(Head(vals), min, step, effectiveBinCount)),
                      Tail(vals), min, step, effectiveBinCount)

\* Lines 1763-1766
RECURSIVE CountFail(_, _, _, _, _)
CountFail(bins, vals, min, step, effectiveBinCount) ==
    IF vals = <<>> THEN bins
    ELSE CountFail(AddFail(bins, getIndex(Head(vals), min, step, effectiveBinCount)),
                   Tail(vals), min, step, effectiveBinCount)

\* The character U+2013 of the range labels, which a TLA+ string cannot hold.
EnDash == "u2013"

\* Lines 1768-1771
formatLabel(b, effectiveBinCount) ==
    IF effectiveBinCount = 1 THEN ToFixed1(b.start)
    ELSE ToFixed1(b.start) \o <<EnDash>> \o ToFixed1(b.end)

\* Lines 1773-1788
Report(bins, effectiveBinCount, successVals, failVals) ==
    [binsSuccess |-> [j \in 1..Len(bins) |->
                         [range |-> formatLabel(bins[j], effectiveBinCount),
                          count |-> bins[j].success]],
     binsFail |-> [j \in 1..Len(bins) |->
                      [range |-> formatLabel(bins[j], effectiveBinCount),
                       count |-> bins[j].fail]],
     statsSuccess |-> computeNumericStats(Arr(successVals)),
     statsFail |-> computeNumericStats(Arr(failVals))]

DistributeStep(successVals, failVals, min, max, effectiveBinCount, step) ==
    Report(CountFail(CountSuccess(MakeBins(min, max, effectiveBinCount, step),
                                  successVals, min, step, effectiveBinCount),
                     failVals, min, step, effectiveBinCount),
           effectiveBinCount, successVals, failVals)

DistributeBins(successVals, failVals, min, max, effectiveBinCount) ==
    DistributeStep(successVals, failVals, min, max, effectiveBinCount,
                   StepOf(min, max, effectiveBinCount))

\* Variant: the requested count kept for a single value.
DistributeRangeUncollapsed(successVals, failVals, min, max, binCount) ==
    DistributeBins(successVals, failVals, min, max, binCount)

\* Line 1740
DistributeRange(successVals, failVals, min, max, binCount) ==
    DistributeBins(successVals, failVals, min, max, IF min = max THEN 1 ELSE binCount)

\* Variant: a bin at zero for cohorts without a present value.
DistributeAroundZero(successVals, failVals, allVals, binCount) ==
    IF Len(allVals) = 0
    THEN DistributeRange(successVals, failVals, RInt(0), RInt(0), binCount)
    ELSE DistributeRange(successVals, failVals, MathMin(allVals), MathMax(allVals),
                         binCount)

\* Lines 1727-1738
Distribute(successVals, failVals, allVals, binCount) ==
    IF Len(allVals) = 0
    THEN [binsSuccess |-> <<>>, binsFail |-> <<>>,
          statsSuccess |-> Null, statsFail |-> Null]
    ELSE DistributeRange(successVals, failVals, MathMin(allVals), MathMax(allVals),
                         binCount)

\* Variant: the range taken from the success cohort alone.
DistributeCohortsBySuccess(successVals, failVals, binCount) ==
    Distribute(successVals, failVals, successVals, binCount)

DistributeCohorts(successVals, failVals, binCount) ==
    Distribute(successVals, failVals, successVals \o failVals, binCount)

buildConditionDistributions(successSessions, failSessions, key, binCount) ==
    DistributeCohorts(PresentValues(successSessions, key),
                      PresentValues(failSessions, key), binCount)

\* Lines 1876-1881 of RecordDetail: the two cohorts of a session list.
successSessionsOf(sessions) == SelectSeq(sessions, LAMBDA s : isSuccessResult(s.result))

failSessionsOf(sessions) == SelectSeq(sessions, LAMBDA s : ~isSuccessResult(s.result))

\* The classification test written out inside processSessions' loop.
processSessionsIsSuccess(s) ==
    LET resultStr == ToLowerCase(String(Or(s.result, Str(<<>>))))
    IN resultStr = Success

ConditionKeys == {"temp", "hum", "press", "wind"}

---------------------------------------------------------------------------
(* Stats.processSessions.  A Map is the sequence of its entries in          *)
(* insertion order; a session row is a record of the columns the query      *)
(* selects that the aggregation reads: result, dog_id, dogs, type,          *)
(* conditions, each a JavaScript value.                                     *)

UnnamedDog ==
    <<"P", "e", "r", "r", "o", " ", "s", "i", "n", " ", "n", "o",
      "m", "b", "r", "e">>

UnknownScent ==
    <<"D", "e", "s", "c", "o", "n", "o", "c", "i", "d", "o">>

Bump(entry, isSuccess) ==
    [entry EXCEPT !.total = @ + 1,
                  !.success = IF isSuccess THEN @ + 1 ELSE @,
                  !.fail = IF isSuccess THEN @ ELSE @ + 1]

\* Lines 2387-2400: the per-dog entry of dogId, made on first encounter,
\* then counted.
perDogCount(perDogMap, dogId, dogName, dogCode, isSuccess) ==
    IF \E i \in 1..Len(perDogMap) : perDogMap[i].dogId = dogId
    THEN [perDogMap EXCEPT
             ![CHOOSE i \in 1..Len(perDogMap) : perDogMap[i].dogId = dogId] =
                 Bump(@, isSuccess)]
    ELSE Append(perDogMap,
                Bump([dogId |-> dogId, name |-> dogName, code |-> dogCode,
                      total |-> 0, success |-> 0, fail |-> 0], isSuccess))

\* Lines 2378-2381: dog?.id || s.dog_id, and the name and code to show.
perDogStep(perDogMap, s, isSuccess) ==
    perDogCount(perDogMap,
                Or(Get(s.dogs, "id"), s.dog_id),
                Or(Get(s.dogs, "name"), Str(UnnamedDog)),
                Or(Get(s.dogs, "dog_code"), Str(<<>>)),
                isSuccess)

\* Lines 2402-2403: the scent label of a session.
ScentOf(s) ==
    String(Or(Get(Or(s.type, Obj(EmptyMap)), "scent"), Str(UnknownScent)))

\* Lines 2404-2415
scentCount(scentMap, scent, isSuccess) ==
    IF \E i \in 1..Len(scentMap) : scentMap[i].scent = scent
    THEN [scentMap EXCEPT
             ![CHOOSE i \in 1..Len(scentMap) : scentMap[i].scent = scent] =
                 Bump(@, isSuccess)]
    ELSE Append(scentMap,
                Bump([scent |-> scent, total |-> 0, success |-> 0, fail |-> 0], isSuccess))

scentStep(scentMap, s, isSuccess) == scentCount(scentMap, ScentOf(s), isSuccess)

\* Lines 2417-2420: the value of a condition key, text parsed as a float.
ParseIfText(raw) == IF raw.t = "string" THEN parseFloat(raw.s) ELSE raw

CondValue(s, key) == ParseIfText(Get(Or(s.conditions, Obj(EmptyMap)), key))

\* Lines 2423-2436: the entry of value q in one key's map, made on first
\* encounter, then counted.
condCount(map, q, isSuccess) ==
    IF \E i \in 1..Len(map) : map[i].value = q
    THEN [map EXCEPT ![CHOOSE i \in 1..Len(map) : map[i].value = q] = Bump(@, isSuccess)]
    ELSE Append(map, Bump([value |-> q, total |-> 0, success |-> 0, fail |-> 0], isSuccess))

\* Variant: a value that is not a finite number counted as 0.
condGuardAsZero(map, v, isSuccess) ==
    condCount(map, IF NumberIsFinite(v) THEN v.q ELSE RInt(0), isSuccess)

\* Line 2421: a value that is not a finite number leaves the map as it is.
condGuard(map, v, isSuccess) ==
    IF ~NumberIsFinite(v) THEN map ELSE condCount(map, v.q, isSuccess)

condStep(map, s, key, isSuccess) == condGuard(map, CondValue(s, key), isSuccess)

EmptyAcc ==
    [perDogMap |-> <<>>, scentMap |-> <<>>,
     condMaps |-> [temp |-> <<>>, hum |-> <<>>, press |-> <<>>, wind |-> <<>>],
     totalSessions |-> 0, totalSuccess |-> 0, totalFail |-> 0]

\* The body of sessions.forEach for one session, isSuccess known.
SessionCount(acc, s, isSuccess) ==
    [perDogMap |-> perDogStep(acc.perDogMap, s, isSuccess),
     scentMap |-> scentStep(acc.scentMap, s, isSuccess),
     condMaps |-> [temp |-> condStep(acc.condMaps.temp, s, "temp", isSuccess),
                   hum |-> condStep(acc.condMaps.hum, s, "hum", isSuccess),
                   press |-> condStep(acc.condMaps.press, s, "press", isSuccess),
                   wind |-> condStep(acc.condMaps.wind, s, "wind", isSuccess)],
     totalSessions |-> acc.totalSessions + 1,
     totalSuccess |-> IF isSuccess THEN acc.totalSuccess + 1 ELSE acc.totalSuccess,
     totalFail |-> IF isSuccess THEN acc.totalFail ELSE acc.totalFail + 1]

SessionStep(acc, s) == SessionCount(acc, s, processSessionsIsSuccess(s))

\* sessions.forEach: totalSessions, one more with each session, is the
\* number of sessions done, and the next session is the one after them.
RECURSIVE ForEachSession(_, _)
ForEachSession(sessions, acc) ==
    IF acc.totalSessions = Len(sessions) THEN acc
    ELSE ForEachSession(sessions, SessionStep(acc, sessions[acc.totalSessions + 1]))

\* Math.round((part / total) * 100) for counts below Limb, by short
\* division: a double here is sig * 2^exp, sig held in five limbs, the
\* lowest first: a significand has 53 = 4 * 13 + 1 digits, its leading 1
\* in limb 5.
Double(sig, exp) == [sig |-> sig, exp |-> exp]

\* limbs + c with every limb but the highest brought below Limb.
RECURSIVE Carry(_, _)
Carry(limbs, c) ==
    IF Len(limbs) = 1 THEN <<limbs[1] + c>>
    ELSE <<(limbs[1] + c) % Limb>> \o Carry(Tail(limbs), (limbs[1] + c) \div Limb)

\* Round to nearest, ties to even: whether cutting the lowest d digits of
\* a number whose lowest limb is low rounds the rest up.
RoundsUp(low, d) ==
    \/ 2 * (low % Power2(d)) > Power2(d)
    \/ 2 * (low % Power2(d)) = Power2(d) /\ (low \div Power2(d)) % 2 = 1

\* limbs rounded at its lowest d digits, which become 0.
RoundAt(limbs, d) ==
    Carry([limbs EXCEPT ![1] = @ - (@ % Power2(d))],
          IF RoundsUp(limbs[1], d) THEN Power2(d) ELSE 0)

\* An exact product of a significand rounded to 53 digits again: the digits
\* its highest limb has over one are cut from the lowest.
RoundToSignificand(limbs) ==
    IF BitLength(limbs[Len(limbs)]) <= 1 THEN limbs
    ELSE RoundAt(limbs, BitLength(limbs[Len(limbs)]) - 1)

\* The doublings that take a positive a, at most b, into [b, 2b).
RECURSIVE Doublings(_, _)
Doublings(a, b) == IF a >= b THEN 0 ELSE 1 + Doublings(2 * a, b)

WithDigit(next, digit) == [limbs |-> Append(next.limbs, digit), rem |-> next.rem]

\* n more limbs of rem / den by long division, and what is left.
RECURSIVE DivideLimbs(_, _, _)
DivideLimbs(rem, den, n) ==
    IF n = 0 THEN [limbs |-> <<>>, rem |-> rem]
    ELSE WithDigit(DivideLimbs((rem * Limb) % den, den, n - 1), (rem * Limb) \div den)

\* The quotient rounded on what the division left: up when that is over
\* half of the last digit, or is half and the last digit is odd.
RoundQuotient(q, den) ==
    Carry(Append(q.limbs, 1),
          IF 2 * q.rem > den \/ (2 * q.rem = den /\ q.limbs[1] % 2 = 1) THEN 1 ELSE 0)

DivideScaled(a, b, k) ==
    Double(RoundQuotient(DivideLimbs(a * Power2(k) - b, b, 4), b), 0 - k - 52)

\* a / b for whole numbers 0 <= a <= b, 0 < b < Limb.
DoubleDivide(a, b) ==
    IF a = 0 THEN Double(<<0, 0, 0, 0, 0>>, -52)
    ELSE DivideScaled(a, b, Doublings(a, b))

\* x * n for a whole number 0 < n < Limb.
DoubleTimes(x, n) ==
    Double(RoundToSignificand(Carry([i \in 1..Len(x.sig) |-> x.sig[i] * n], 0)), x.exp)

\* The digits of x from the one worth 2^39 up.
TopDigits(x) == x.sig[5] * Limb + x.sig[4]

\* Math.round of a double below 2^13: its whole part, plus one when the
\* first digit after the point is 1.
MathRoundDouble(x) ==
    (TopDigits(x) \div Power2(0 - x.exp - 39))
    + ((TopDigits(x) \div Power2(0 - x.exp - 40)) % 2)

\* total ? Math.round((part / total) * 100) : 0
PercentRounded(part, whole) ==
    IF whole # 0 THEN MathRoundDouble(DoubleTimes(DoubleDivide(part, whole), 100)) ELSE 0

\* Variant: the share left as a fraction of one.
PercentUnscaled(part, whole) ==
    IF whole # 0 THEN DDiv(DOfInt(part), DOfInt(whole)) ELSE DZero

\* total ? (part / total) * 100 : 0, the quotient and the product each
\* rounded to a double.
Percent(part, whole) ==
    IF whole # 0 THEN DMul(DDiv(DOfInt(part), DOfInt(whole)), DOfInt(100)) ELSE DZero

\* Lines 2449-2461
perDogArr(perDogMap) ==
    [i \in 1..Len(perDogMap) |->
        LET d == perDogMap[i]
        IN [dogId |-> d.dogId, name |-> d.name, code |-> d.code,
            total |-> d.total, success |-> d.success, fail |-> d.fail,
            successRate |-> Percent(d.success, d.total),
            failRate |-> Percent(d.fail, d.total)]]

\* Lines 2464-2471
scentArr(scentMap) ==
    [i \in 1..Len(scentMap) |->
        LET e == scentMap[i]
        IN [scent |-> e.scent, total |-> e.total, success |-> e.success, fail |-> e.fail,
            successRate |-> PercentRounded(e.success, e.total)]]

\* arr.sort((a, b) => a.value - b.value), stable.
RECURSIVE InsertByValue(_, _)
InsertByValue(x, s) ==
    IF s = <<>> THEN <<x>>
    ELSE IF RLess(x.value, Head(s).value) THEN <<x>> \o s
    ELSE <<Head(s)>> \o InsertByValue(x, Tail(s))

RECURSIVE SortByValue(_)
SortByValue(s) ==
    IF s = <<>> THEN <<>>
    ELSE InsertByValue(s[Len(s)], SortByValue(SubSeq(s, 1, Len(s) - 1)))

\* Lines 2475-2483: the object made of each entry of a Map.
SeriesOf(map) ==
    [i \in 1..Len(map) |->
        LET e == map[i]
        IN [value |-> e.value, total |-> e.total, success |-> e.success, fail |-> e.fail,
            successRate |-> PercentRounded(e.success, e.total)]]

\* Lines 2474-2486
buildSeries(map) == SortByValue(SeriesOf(map))

\* Lines 2440-2493: the four states set from the maps and counters.
Publish(acc) ==
    [globalKpis |-> [totalSessions |-> acc.totalSessions,
                     totalDogs |-> Len(acc.perDogMap),
                     successRate |-> PercentRounded(acc.totalSuccess, acc.totalSessions),
                     totalFails |-> acc.totalFail],
     perDogStats |-> perDogArr(acc.perDogMap),
     scentStats |-> scentArr(acc.scentMap),
     conditionSeries |-> [k \in ConditionKeys |-> buildSeries(acc.condMaps[k])]]

\* The four states processSessions sets, as one record.
processSessions(sessions) ==
    IF Len(sessions) = 0
    THEN [globalKpis |-> [totalSessions |-> 0, totalDogs |-> 0,
                          successRate |-> 0, totalFails |-> 0],
          perDogStats |-> <<>>,
          scentStats |-> <<>>,
          conditionSeries |-> [k \in ConditionKeys |-> <<>>]]
    ELSE Publish(ForEachSession(sessions, EmptyAcc))

\* d[key] for the four sort keys, as a number.
KeyValue(d, key) ==
    CASE key = "success" -> RInt(d.success)
      [] key = "fail" -> RInt(d.fail)
      [] key = "successRate" -> d.successRate
      [] OTHER -> d.failRate

\* [...perDogStats].sort((a, b) => b[key] - a[key]), stable: an entry goes
\* before the first one whose key is strictly smaller.
RECURSIVE InsertDescending(_, _, _)
InsertDescending(x, s, key) ==
    IF s = <<>> THEN <<x>>
    ELSE IF NumLess(KeyValue(Head(s), key), KeyValue(x, key)) THEN <<x>> \o s
    ELSE <<Head(s)>> \o InsertDescending(x, Tail(s), key)

\* Variant: an entry also goes before the ones with an equal key.
RECURSIVE InsertDescendingUnstable(_, _, _)
InsertDescendingUnstable(x, s, key) ==
    IF s = <<>> THEN <<x>>
    ELSE IF ~NumLess(KeyValue(x, key), KeyValue(Head(s), key)) THEN <<x>> \o s
    ELSE <<Head(s)>> \o InsertDescendingUnstable(x, Tail(s), key)

RECURSIVE SortDescendingUnstable(_, _)
SortDescendingUnstable(s, key) ==
    IF s = <<>> THEN <<>>
    ELSE InsertDescendingUnstable(s[Len(s)],
                                  SortDescendingUnstable(SubSeq(s, 1, Len(s) - 1), key), key)

RECURSIVE SortDescending(_, _)
SortDescending(s, key) ==
    IF s = <<>> THEN <<>>
    ELSE InsertDescending(s[Len(s)], SortDescending(SubSeq(s, 1, Len(s) - 1), key), key)

\* Variant of the ranking sort.
RankByUnstable(stats, key) ==
    IF Len(stats) = 0 THEN <<>> ELSE SortDescendingUnstable(stats, key)

\* The body of the two useMemo rankings for a sort key.
RankBy(stats, key) ==
    IF Len(stats) = 0 THEN <<>> ELSE SortDescending(stats, key)

sortKeySuccess == IF dogTableMode = "absolute" THEN "success" ELSE "successRate"

sortKeyFail == IF dogTableMode = "absolute" THEN "fail" ELSE "failRate"

successRanking == RankBy(perDogStats, sortKeySuccess)

failRanking == RankBy(perDogStats, sortKeyFail)

\* Lines 2279-2284: the ranked entries' values under the selected mode.
successValuesForStats ==
    Arr([i \in 1..Len(successRanking) |-> KeyValue(successRanking[i], sortKeySuccess)])

failValuesForStats ==
    Arr([i \in 1..Len(failRanking) |-> KeyValue(failRanking[i], sortKeyFail)])

\* Lines 2286-2288
successStatsGlobal == computeNumericStats(successValuesForStats)

failStatsGlobal == computeNumericStats(failValuesForStats)

\* The character U+2014 of StatsSummary, which a TLA+ string cannot hold.
EmDash == "u2014"

NoStatsMessage == "No hay suficientes datos para calcular estadísticos."

\* Lines 3105-3106 of StatsSummary: format, for a finite number x.
format(x) == IF NumberIsFinite(Num(x)) THEN ToFixed2(x) ELSE <<EmDash>>

\* Lines 3094-3121: what StatsSummary renders for its stats prop.
StatsSummary(stats) ==
    IF ~Truthy(stats) THEN [p |-> NoStatsMessage]
    ELSE [Media |-> format(stats.mean),
          Mediana |-> format(stats.median),
          Moda |-> format(stats.mode)]

NoSessionsMessage == "No hay sesiones registradas todavía."

\* Lines 2604-2686: the two rankings with their summaries, or the message.
StatsRankingBlock ==
    IF Len(perDogStats) = 0 THEN [p |-> NoSessionsMessage]
    ELSE [success |-> [ranking |-> successRanking,
                       summary |-> StatsSummary(successStatsGlobal)],
          fail |-> [ranking |-> failRanking,
                    summary |-> StatsSummary(failStatsGlobal)]]

---------------------------------------------------------------------------
(* Inputs of the helper calls. *)

ToUpperChar(c) ==
    IF \E i \in 1..26 : LowerCase[i] = c
    THEN UpperCase[CHOOSE i \in 1..26 : LowerCase[i] = c]
    ELSE c

\* "success" in every mix of upper and lower case.
CaseVariants ==
    {[i \in 1..Len(Success) |-> IF i \in U THEN ToUpperChar(Success[i]) ELSE Success[i]] :
        U \in SUBSET (1..Len(Success))}

Fail == <<"f", "a", "i", "l">>

ResultInputs ==
    {Str(w) : w \in CaseVariants}
    \cup {Str(w \o <<" ">>) : w \in CaseVariants}
    \cup {Str(<<" ">> \o w) : w \in CaseVariants}
    \cup {Undefined, Null, Str(<<>>), Str(Fail), Str(Success \o <<"s">>),
          Str(SubSeq(Success, 1, 6)), Str(<<"t", "r", "u", "e">>),
          Num(RInt(0)), Num(RInt(1)), Bool(TRUE), Bool(FALSE), Obj(EmptyMap)}

TextAlphabet == {"1", "2", "0", ".", "-", " ", "x", "e"}

RECURSIVE TextsUpTo(_)
TextsUpTo(n) ==
    IF n = 0 THEN {<<>>}
    ELSE LET shorter == TextsUpTo(n - 1)
         IN shorter \cup {Append(w, c) : w \in {x \in shorter : Len(x) = n - 1},
                                          c \in TextAlphabet}

TextInputs == TextsUpTo(MaxStrLen)

RawValueInputs ==
    {Str(w) : w \in TextInputs}
    \cup {Null, Bool(TRUE), Bool(FALSE), NaN, Infinity(FALSE), Infinity(TRUE),
          Obj(EmptyMap), Num(RInt(0)), Num(RInt(2)), Num(RInt(-1)), Num(Rat(43, 2)),
          Str(<<"I", "n", "f", "i", "n", "i", "t", "y">>),
          Str(<<"2", "1", ".", "5", "0">>), Str(<<"1", "e", "-", "1">>),
          Str(<<"n", "o", "t", "-", "a", "-", "n", "u", "m", "b", "e", "r">>)}

\* Sessions whose conditions hold one value under temp, and sessions whose
\* conditions mapping is missing, null, empty or not a mapping.
ConditionsInputs ==
    {Obj([k \in {"temp"} |-> v]) : v \in RawValueInputs}
    \cup {Undefined, Null, Obj(EmptyMap), Str(<<"2">>), Num(RInt(2)),
          Obj([k \in ConditionKeys |->
                  CASE k = "temp" -> Num(RInt(1))
                    [] k = "hum" -> Str(<<"2">>)
                    [] k = "press" -> Null
                    [] OTHER -> Str(<<"x">>)])}

NumPool == {RInt(1), RInt(2), RInt(3), RInt(4), Rat(-3, 2), Rat(1, 10)}

RECURSIVE SeqsUpTo(_, _)
SeqsUpTo(S, n) ==
    IF n = 0 THEN {<<>>}
    ELSE LET shorter == SeqsUpTo(S, n - 1)
         IN shorter \cup {Append(w, c) : w \in {x \in shorter : Len(x) = n - 1}, c \in S}

ValuesInputs == {Arr(a) : a \in SeqsUpTo(NumPool, MaxLen)} \cup {Null, Undefined}

---------------------------------------------------------------------------
(* The helper calls: one pending call, then its return. *)

StatsUnmounted ==
    /\ statsPc = "unmounted"
    /\ statsData = Null
    /\ statsQueryError = Null
    /\ statsSessions = <<>>
    /\ loading = FALSE
    /\ error = Null
    /\ globalKpis = Null
    /\ perDogStats = <<>>
    /\ scentStats = <<>>
    /\ conditionSeries = [k \in ConditionKeys |-> <<>>]
    /\ dogTableMode = "absolute"

StatsIdle == supabase = TRUE /\ StatsUnmounted

DetailIdle ==
    /\ detailPc = "unmounted"
    /\ detailId = <<>>
    /\ detailEarlier = EmptyBag
    /\ detailDogData = Null
    /\ detailSessData = Null
    /\ detailQueryError = Null
    /\ detailDog = Null
    /\ detailSessions = <<>>
    /\ detailLoading = FALSE
    /\ detailError = Null
    /\ selectedCondition = "temp"

\* Lines 1124-1126: useState of an AuthProvider whose effect is not modelled.
AuthIdle ==
    /\ authPc = "unmounted"
    /\ path = "/"
    /\ mounted = [page |-> "none"]
    /\ authUser = Null
    /\ authProfile = Null
    /\ authLoading = TRUE
    /\ profileLoads = EmptyBag

\* Lines 2839-2850: useState
NewDogIdle ==
    /\ ndForm = [dog_code |-> <<>>, name |-> <<>>]
    /\ ndLoading = FALSE
    /\ ndError = Null
    /\ ndPending = 0
    /\ ndOrphans = 0

RecordsIdle ==
    /\ recPc = "unmounted"
    /\ recQueryError = Null
    /\ recDogs = <<>>
    /\ recLoading = FALSE
    /\ recError = Null

AppIdle == AuthIdle /\ NewDogIdle /\ RecordsIdle

InitHelpers ==
    /\ hDone = FALSE
    /\ hRet = Undefined
    /\ \/ hFn = "isSuccessResult" /\ hArg \in ResultInputs
       \/ hFn = "processSessionsIsSuccess" /\ hArg \in {[result |-> r] : r \in ResultInputs}
       \/ hFn = "getConditionValue"
          /\ hArg \in {[session |-> [conditions |-> c], key |-> k] :
                          c \in ConditionsInputs, k \in ConditionKeys}
       \/ hFn = "computeNumericStats" /\ hArg \in ValuesInputs
    /\ StatsIdle
    /\ DetailIdle
    /\ AppIdle

CallIsSuccessResult ==
    /\ hFn = "isSuccessResult" /\ ~hDone
    /\ hRet' = Bool(isSuccessResult(hArg))
    /\ hDone' = TRUE
    /\ UNCHANGED <<hFn, hArg, statsVars, detailVars, appVars>>

CallProcessSessionsIsSuccess ==
    /\ hFn = "processSessionsIsSuccess" /\ ~hDone
    /\ hRet' = Bool(processSessionsIsSuccess(hArg))
    /\ hDone' = TRUE
    /\ UNCHANGED <<hFn, hArg, statsVars, detailVars, appVars>>

CallGetConditionValue ==
    /\ hFn = "getConditionValue" /\ ~hDone
    /\ hRet' = getConditionValue(hArg.session, hArg.key)
    /\ hDone' = TRUE
    /\ UNCHANGED <<hFn, hArg, statsVars, detailVars, appVars>>

CallComputeNumericStats ==
    /\ hFn = "computeNumericStats" /\ ~hDone
    /\ hRet' = computeNumericStats(hArg)
    /\ hDone' = TRUE
    /\ UNCHANGED <<hFn, hArg, statsVars, detailVars, appVars>>

NextHelpers ==
    \/ CallIsSuccessResult
    \/ CallProcessSessionsIsSuccess
    \/ CallGetConditionValue
    \/ CallComputeNumericStats

SpecHelpers == InitHelpers /\ [][NextHelpers]_vars

---------------------------------------------------------------------------
(* The Stats page: its state, its fetch effect and the ranking mode. *)

NotConfiguredMessage ==
    <<"S", "u", "p", "a", "b", "a", "s", "e", " ", "n", "o", " ", "e",
      "s", "t", "á", " ", "c", "o", "n", "f", "i", "g", "u", "r", "a",
      "d", "o", " ", "c", "o", "r", "r", "e", "c", "t", "a", "m", "e",
      "n", "t", "e", ".", " ", "N", "o", " ", "s", "e", " ", "p", "u",
      "e", "d", "e", "n", " ", "m", "o", "s", "t", "r", "a", "r", " ",
      "e", "s", "t", "a", "d", "í", "s", "t", "i", "c", "a", "s", ".">>

LoadErrorMessage ==
    <<"E", "r", "r", "o", "r", " ", "a", "l", " ", "c", "a", "r", "g",
      "a", "r", " ", "l", "a", "s", " ", "e", "s", "t", "a", "d", "í",
      "s", "t", "i", "c", "a", "s", ".">>

DogRow(id, name, code) ==
    Obj([k \in {"id", "name", "dog_code"} |->
            CASE k = "id" -> id [] k = "name" -> Str(name) [] OTHER -> Str(code)])

Row(result, dogId, dogs, type, conditions) ==
    [result |-> result, dog_id |-> dogId, dogs |-> dogs, type |-> type,
     conditions |-> conditions]

Scent(label) == Obj([k \in {"scent"} |-> label])

D1 == Str(<<"d", "1">>)

D2 == Str(<<"d", "2">>)

D3 == Str(<<"d", "3">>)

Rex == DogRow(D1, <<"R", "e", "x">>, <<"K", "9", "-", "1">>)

Kira == DogRow(D2, <<"K", "i", "r", "a">>, <<>>)

Thor == DogRow(D3, <<"T", "h", "o", "r">>, <<"K", "9", "-", "3">>)

NotANumber == <<"n", "o", "t", "-", "a", "-", "n", "u", "m", "b", "e", "r">>

\* The rows a sessions query may answer with.  The embedded dogs row, when
\* the backend returns it, is the row of dog_id (a foreign key).
SessionPool ==
    {Row(Str(Success), D1, Rex, Scent(Str(<<"a">>)),
         Obj(("temp" :> Num(RInt(20))) @@ ("hum" :> Str(<<"5", "0">>))
             @@ ("wind" :> Num(RInt(1))))),
     Row(Str(<<"S", "u", "c", "c", "e", "s", "s">>), D1, Rex, Scent(Str(<<"b">>)),
         Obj(("temp" :> Str(<<"2", "0", ".", "0">>)) @@ ("hum" :> Num(RInt(60)))
             @@ ("press" :> Str(<<"x">>)))),
     Row(Str(Fail), D1, Null, Scent(Str(<<"a">>)),
         Obj(("temp" :> Num(RInt(15))) @@ ("wind" :> Str(<<"1">>)))),
     Row(Str(Success), D2, Kira, Scent(Str(UnknownScent)),
         Obj(("temp" :> Str(<<"2", "0">>)) @@ ("press" :> Num(Rat(20273, 20))))),
     Row(Null, D2, Kira, Scent(Str(<<>>)),
         Obj(("temp" :> Str(NotANumber)) @@ ("hum" :> Num(RInt(50))))),
     Row(Str(Fail), Null, Null, Null, Null),
     Row(Str(<<"S", "U", "C", "C", "E", "S", "S">>), D3, Thor, Scent(Num(RInt(7))),
         Obj(("temp" :> Num(RInt(25))) @@ ("hum" :> Null) @@ ("wind" :> Num(RInt(0))))),
     Row(Str(Success \o <<" ">>), D3, Thor, Obj(EmptyMap),
         Obj(("temp" :> Num(Rat(31, 2))) @@ ("press" :> Num(RInt(1013)))))}

SessionLists == SeqsUpTo(SessionPool, MaxSessions)

\* A row of a long list: one dog, one scent, all four conditions present.
BatchRow(result) ==
    Row(Str(result), D1, Rex, Scent(Str(<<"a">>)),
        Obj([k \in ConditionKeys |->
                CASE k = "temp" -> Num(RInt(20))
                  [] k = "hum" -> Num(RInt(50))
                  [] k = "press" -> Num(RInt(1013))
                  [] OTHER -> Num(RInt(1))]))

Batch(successes, size) ==
    [i \in 1..size |-> IF i <= successes THEN BatchRow(Success) ELSE BatchRow(Fail)]

BatchLists == {Batch(successes, MaxBatch) : successes \in 0..MaxBatch}

\* The data of a query that answered without error: the rows, or null.
QueryData == {Arr(rows) : rows \in SessionLists \cup BatchLists} \cup {Null}

\* The error of a query that failed: with a message, or without one.
QueryErrors == {[message |-> Str(<<"b", "o", "o", "m">>)], [message |-> Undefined]}

InitStats ==
    /\ supabase \in BOOLEAN
    /\ statsPc = "mounted"
    /\ statsData = Null
    /\ statsQueryError = Null
    /\ statsSessions = <<>>
    /\ loading = supabase
    /\ error = Null
    /\ globalKpis = Null
    /\ perDogStats = <<>>
    /\ scentStats = <<>>
    /\ conditionSeries = [k \in ConditionKeys |-> <<>>]
    /\ dogTableMode = "absolute"

\* Lines 2295-2307: the effect after mount, up to the await.
StatsEffect ==
    /\ statsPc = "mounted"
    /\ IF ~supabase
       THEN /\ loading' = FALSE
            /\ error' = Str(NotConfiguredMessage)
            /\ statsPc' = "done"
       ELSE /\ loading' = TRUE
            /\ error' = Null
            /\ statsPc' = "awaiting"
    /\ UNCHANGED <<supabase, statsData, statsQueryError, statsSessions, globalKpis,
                   perDogStats, scentStats, conditionSeries, dogTableMode, helperVars,
                   detailVars, appVars>>

\* Lines 2328-2330 and 2336-2338: the query answered with data.
StatsQueryAnswers ==
    /\ statsPc = "awaiting"
    /\ \E data \in QueryData :
          \E sessions \in {IF Truthy(data) THEN data.a ELSE <<>>} :
             \E next \in {processSessions(sessions)} :
                /\ statsData' = data
                /\ statsSessions' = sessions
                /\ globalKpis' = next.globalKpis
                /\ perDogStats' = next.perDogStats
                /\ scentStats' = next.scentStats
                /\ conditionSeries' = next.conditionSeries
    /\ loading' = FALSE
    /\ statsPc' = "done"
    /\ UNCHANGED <<supabase, statsQueryError, error, dogTableMode, helperVars,
                   detailVars, appVars>>

\* Variant: the empty statistics published when the query fails.
StatsQueryFailsAndPublishes ==
    /\ statsPc = "awaiting"
    /\ \E err \in QueryErrors :
          /\ statsQueryError' = err
          /\ error' = Or(err.message, Str(LoadErrorMessage))
    /\ \E next \in {processSessions(<<>>)} :
          /\ globalKpis' = next.globalKpis
          /\ perDogStats' = next.perDogStats
          /\ scentStats' = next.scentStats
          /\ conditionSeries' = next.conditionSeries
    /\ loading' = FALSE
    /\ statsPc' = "done"
    /\ UNCHANGED <<supabase, statsData, statsSessions, dogTableMode, helperVars,
                   detailVars, appVars>>

\* Lines 2328 and 2331-2338: the query answered with an error.
StatsQueryFails ==
    /\ statsPc = "awaiting"
    /\ \E err \in QueryErrors :
          /\ statsQueryError' = err
          /\ error' = Or(err.message, Str(LoadErrorMessage))
    /\ loading' = FALSE
    /\ statsPc' = "done"
    /\ UNCHANGED <<supabase, statsData, statsSessions, globalKpis, perDogStats,
                   scentStats, conditionSeries, dogTableMode, helperVars, detailVars, appVars>>

\* Line 2520: the block that holds the rankings and their mode buttons.
StatsRendered == ~loading /\ ~Truthy(error) /\ globalKpis # Null

\* Lines 2562-2584: the two mode buttons.
SetDogTableMode ==
    /\ StatsRendered
    /\ \E mode \in {"absolute", "rate"} : dogTableMode' = mode
    /\ UNCHANGED <<supabase, statsPc, statsData, statsQueryError, statsSessions,
                   loading, error, globalKpis, perDogStats, scentStats, conditionSeries,
                   helperVars, detailVars, appVars>>

HelpersIdle == hFn = "none" /\ hArg = Undefined /\ hDone = FALSE /\ hRet = Undefined

Init == InitStats /\ HelpersIdle /\ DetailIdle /\ AppIdle

Next ==
    \/ StatsEffect
    \/ StatsQueryAnswers
    \/ StatsQueryFails
    \/ SetDogTableMode

Spec == Init /\ [][Next]_vars

---------------------------------------------------------------------------
(* The dog detail page, RecordDetail. *)

DetailErrorMessage ==
    <<"E", "r", "r", "o", "r", " ", "a", "l", " ", "c", "a", "r", "g", "a", "r",
      " ", "e", "l", " ", "p", "e", "r", "r", "o", " ", "/", " ", "s", "u", "s",
      " ", "s", "e", "s", "i", "o", "n", "e", "s", " ", "d", "e", "s", "d", "e",
      " ", "S", "u", "p", "a", "b", "a", "s", "e">>

\* Lines 3156-3161
MOCK_ENTRIES ==
    <<[id |-> <<"A", "-", "0", "0", "1">>, perro |-> <<"L", "o", "b", "o">>],
      [id |-> <<"A", "-", "0", "0", "2">>, perro |-> <<"M", "o", "r", "a">>],
      [id |-> <<"A", "-", "0", "0", "3">>, perro |-> <<"K", "i", "r", "a">>],
      [id |-> <<"A", "-", "0", "0", "4">>, perro |-> <<"T", "h", "o", "r">>]>>

\* The route parameter id: a mock entry's id, or a dogs.id of the backend.
RouteIds == {MOCK_ENTRIES[1].id, MOCK_ENTRIES[4].id, <<"d", "1">>, <<"d", "2">>}

\* Lines 1859-1869: the dog built from a mock entry.
MockDog(entry) == DogRow(Str(entry.id), entry.perro, entry.id)

\* The rows of the backend's dogs table.
DogsTable == {Rex, Kira}

\* The row the dogs query .eq("id", id).single() may answer with.
DogData(id) == {d \in DogsTable : d.m.id = Str(id)}

\* A row of the training_sessions query of lines 1832-1838.
DetailRow(result, conditions) == [result |-> result, conditions |-> conditions]

Temp(v) == Obj([k \in {"temp"} |-> v])

\* The rows a dog's sessions query may answer with.
DetailPool ==
    {DetailRow(Str(Success), Temp(Num(RInt(0)))),
     DetailRow(Str(<<"S", "u", "c", "c", "e", "s", "s">>), Temp(Num(RInt(10)))),
     DetailRow(Str(Fail), Temp(Num(RInt(5)))),
     DetailRow(Null, Temp(Str(<<"5", ".", "0">>))),
     DetailRow(Str(Success), Obj([k \in {"hum"} |-> Num(RInt(50))])),
     DetailRow(Str(Fail), Null)}

DetailLists == SeqsUpTo(DetailPool, MaxSessions)

\* The data of a sessions query that answered without error: the rows, or null.
DetailQueryData == {Arr(rows) : rows \in DetailLists} \cup {Null}

\* Lines 1796-1804: useParams and useState
InitDetail ==
    /\ supabase \in BOOLEAN
    /\ detailPc = "mounted"
    /\ detailId \in RouteIds
    /\ detailEarlier = EmptyBag
    /\ detailDogData = Null
    /\ detailSessData = Null
    /\ detailQueryError = Null
    /\ detailDog = Null
    /\ detailSessions = <<>>
    /\ detailLoading = supabase
    /\ detailError = Null
    /\ selectedCondition = "temp"

\* Lines 1854-1872: the effect without a backend client, for the id.
DetailMockEffect(id) ==
    /\ detailLoading' = FALSE
    /\ IF \E i \in 1..Len(MOCK_ENTRIES) : MOCK_ENTRIES[i].id = id
       THEN /\ detailDog' =
                 MockDog(MOCK_ENTRIES[CHOOSE i \in 1..Len(MOCK_ENTRIES) :
                                         MOCK_ENTRIES[i].id = id])
            /\ detailSessions' = <<>>
       ELSE UNCHANGED <<detailDog, detailSessions>>
    /\ detailPc' = "done"
    /\ UNCHANGED detailError

\* Lines 1814-1828 and 1854-1872: the effect, up to its first await, run
\* after the commit of the mount or of a render with another route id.
DetailEffect ==
    /\ detailPc = "mounted"
    /\ IF supabase
       THEN /\ detailLoading' = TRUE
            /\ detailError' = Null
            /\ detailPc' = "awaitingDog"
            /\ UNCHANGED <<detailDog, detailSessions>>
       ELSE DetailMockEffect(detailId)
    /\ UNCHANGED <<detailId, detailEarlier, detailDogData, detailSessData,
                   detailQueryError, selectedCondition, statsVars, helperVars, appVars>>

\* Variant: the dog stored as soon as the dogs query has answered.
DetailDogAnswersAndStores ==
    /\ detailPc = "awaitingDog"
    /\ \E dogData \in DogData(detailId) :
          /\ detailDogData' = dogData
          /\ detailDog' = dogData
    /\ detailPc' = "awaitingSessions"
    /\ UNCHANGED <<detailId, detailEarlier, detailSessData, detailQueryError,
                   detailSessions, detailLoading, detailError,
                   selectedCondition, statsVars, helperVars, appVars>>

\* Lines 1822-1832: the dogs query answered with a row.
DetailDogAnswers ==
    /\ detailPc = "awaitingDog"
    /\ \E dogData \in DogData(detailId) : detailDogData' = dogData
    /\ detailPc' = "awaitingSessions"
    /\ UNCHANGED <<detailId, detailEarlier, detailSessData, detailQueryError, detailDog,
                   detailSessions, detailLoading, detailError,
                   selectedCondition, statsVars, helperVars, appVars>>

\* Lines 1830 and 1844-1852: the dogs query answered with an error.
DetailDogFails ==
    /\ detailPc = "awaitingDog"
    /\ \E err \in QueryErrors :
          /\ detailQueryError' = err
          /\ detailError' = Or(err.message, Str(DetailErrorMessage))
    /\ detailLoading' = FALSE
    /\ detailPc' = "done"
    /\ UNCHANGED <<detailId, detailEarlier, detailDogData, detailSessData, detailDog,
                   detailSessions, selectedCondition, statsVars, helperVars, appVars>>

\* Lines 1832-1843 and 1850-1852: the sessions query answered with one of
\* answers.
DetailSessionsAnswerFrom(answers) ==
    /\ detailPc = "awaitingSessions"
    /\ detailDog' = detailDogData
    /\ \E sessData \in answers :
          /\ detailSessData' = sessData
          /\ detailSessions' = IF Truthy(sessData) THEN sessData.a ELSE <<>>
    /\ detailLoading' = FALSE
    /\ detailPc' = "done"
    /\ UNCHANGED <<detailId, detailEarlier, detailDogData, detailQueryError, detailError,
                   selectedCondition, statsVars, helperVars, appVars>>

DetailSessionsAnswer == DetailSessionsAnswerFrom(DetailQueryData)

\* Lines 1840 and 1844-1852: the sessions query answered with an error.
DetailSessionsFail ==
    /\ detailPc = "awaitingSessions"
    /\ \E err \in QueryErrors :
          /\ detailQueryError' = err
          /\ detailError' = Or(err.message, Str(DetailErrorMessage))
    /\ detailLoading' = FALSE
    /\ detailPc' = "done"
    /\ UNCHANGED <<detailId, detailEarlier, detailDogData, detailSessData, detailDog,
                   detailSessions, selectedCondition, statsVars, helperVars, appVars>>

\* The answers of the sessions query while the route id changes: short
\* lists of a success and a failure, or null.
RoutedQueryData ==
    {Arr(rows) :
        rows \in SeqsUpTo({DetailRow(Str(Success), Temp(Num(RInt(10)))),
                           DetailRow(Str(Fail), Null)}, MaxRoutedSessions)} \cup {Null}

RoutedSessionsAnswer == DetailSessionsAnswerFrom(RoutedQueryData)

\* The fetch of the effect's latest run, when it is still in flight.
DetailInFlight ==
    IF detailPc \in {"awaitingDog", "awaitingSessions"}
    THEN {[id |-> detailId, pc |-> detailPc, dogData |-> detailDogData]}
    ELSE {}

\* Lines 1796 and 1873: a navigation to /records/:id while the page stays
\* mounted, and the render with the id useParams then yields.  The effect
\* has the dependency list [id]: a render with the id of the effect's last
\* run leaves no effect to run and changes nothing.  A render with another
\* id is committed with the state as it is, and the effect is yet to run
\* for it: DetailEffect is its run.  Nothing cancels the run for the
\* earlier id: its fetch stays in flight and can answer before or after
\* the effect.  The effect of a commit runs before the next render, so the
\* page renders for a route again only after it.
DetailRouteRenders ==
    /\ detailPc \in {"awaitingDog", "awaitingSessions", "done"}
    /\ BagCardinality(detailEarlier) + Cardinality(DetailInFlight) <= MaxEarlier
    /\ \E id \in RouteIds :
          IF id # detailId
          THEN /\ detailId' = id
               /\ detailPc' = "mounted"
               /\ detailEarlier' = detailEarlier (+) SetToBag(DetailInFlight)
               /\ detailDogData' = Null
          ELSE UNCHANGED <<detailId, detailPc, detailEarlier, detailDogData>>
    /\ UNCHANGED <<detailSessData, detailQueryError, detailDog, detailSessions,
                   detailLoading, detailError, selectedCondition, statsVars,
                   helperVars, appVars>>

\* Lines 1822-1832, for a fetch of an earlier id.
EarlierDogAnswers ==
    /\ \E f \in BagToSet(detailEarlier) :
          /\ f.pc = "awaitingDog"
          /\ \E dogData \in DogData(f.id) :
                detailEarlier' =
                    (detailEarlier (-) SetToBag({f}))
                       (+) SetToBag({[id |-> f.id, pc |-> "awaitingSessions",
                                     dogData |-> dogData]})
    /\ UNCHANGED <<detailPc, detailId, detailDogData, detailSessData, detailQueryError,
                   detailDog, detailSessions, detailLoading, detailError,
                   selectedCondition, statsVars, helperVars, appVars>>

\* Lines 1830, 1840 and 1844-1852, for a fetch of an earlier id.
EarlierQueryFails ==
    /\ \E f \in BagToSet(detailEarlier) : detailEarlier' = detailEarlier (-) SetToBag({f})
    /\ \E err \in QueryErrors :
          /\ detailQueryError' = err
          /\ detailError' = Or(err.message, Str(DetailErrorMessage))
    /\ detailLoading' = FALSE
    /\ UNCHANGED <<detailPc, detailId, detailDogData, detailSessData, detailDog,
                   detailSessions, selectedCondition, statsVars, helperVars, appVars>>

\* Lines 1832-1843 and 1850-1852, for a fetch of an earlier id.
EarlierSessionsAnswer ==
    /\ \E f \in BagToSet(detailEarlier) :
          /\ f.pc = "awaitingSessions"
          /\ detailEarlier' = detailEarlier (-) SetToBag({f})
          /\ detailDog' = f.dogData
    /\ \E sessData \in RoutedQueryData :
          /\ detailSessData' = sessData
          /\ detailSessions' = IF Truthy(sessData) THEN sessData.a ELSE <<>>
    /\ detailLoading' = FALSE
    /\ UNCHANGED <<detailPc, detailId, detailDogData, detailQueryError, detailError,
                   selectedCondition, statsVars, helperVars, appVars>>

\* Line 1946: the sections of the page are rendered for a dog.
DetailRendered == Truthy(detailDog)

\* Lines 2080-2092: the condition selector.
SetSelectedCondition ==
    /\ detailPc # "unmounted"
    /\ DetailRendered
    /\ \E key \in ConditionKeys : selectedCondition' = key
    /\ UNCHANGED <<detailPc, detailId, detailEarlier, detailDogData, detailSessData,
                   detailQueryError, detailDog, detailSessions, detailLoading,
                   detailError, statsVars, helperVars, appVars>>

\* Lines 1876-1882
successSessions == successSessionsOf(detailSessions)

failSessions == failSessionsOf(detailSessions)

totalSessions == Len(detailSessions)

\* Lines 1884-1887
successRate ==
    IF totalSessions # 0
    THEN DMul(DDiv(DOfInt(Len(successSessions)), DOfInt(totalSessions)), DOfInt(100))
    ELSE DZero

failRate == IF totalSessions # 0 THEN DSub(DOfInt(100), successRate) ELSE DZero

\* Lines 1889-1898
rateHistogramData ==
    <<[label |-> "Éxitos", rate |-> MathRound(successRate)],
      [label |-> "Falsos positivos", rate |-> MathRound(failRate)]>>

\* Lines 1901-1914
distributions ==
    buildConditionDistributions(successSessions, failSessions, selectedCondition,
                                DefaultBinCount)

NoSessionsYetMessage == "Todavía no hay sesiones registradas para este perro."

\* Lines 2032-2061: the rates chart, or the message.
RatesSection ==
    IF totalSessions = 0 THEN [p |-> NoSessionsYetMessage]
    ELSE [BarChart |-> rateHistogramData]

NoNumericDataMessage ==
    "No hay datos numéricos para esta condición en las sesiones de este perro."

\* Lines 2095-2173: the two histograms with their summaries, or the message.
DistributionsSection ==
    IF Len(distributions.binsSuccess) = 0 /\ Len(distributions.binsFail) = 0
    THEN [p |-> NoNumericDataMessage]
    ELSE [success |-> [BarChart |-> distributions.binsSuccess,
                       summary |-> StatsSummary(distributions.statsSuccess)],
          fail |-> [BarChart |-> distributions.binsFail,
                    summary |-> StatsSummary(distributions.statsFail)]]

NextDetail ==
    \/ DetailEffect
    \/ DetailDogAnswers
    \/ DetailDogFails
    \/ DetailSessionsAnswer
    \/ DetailSessionsFail
    \/ SetSelectedCondition

SpecDetail ==
    (InitDetail /\ HelpersIdle /\ StatsUnmounted /\ AppIdle) /\ [][NextDetail]_vars

---------------------------------------------------------------------------
(* RecordDetail while the route id changes. *)

NextDetailRoutes ==
    \/ DetailEffect
    \/ DetailDogAnswers
    \/ DetailDogFails
    \/ RoutedSessionsAnswer
    \/ DetailSessionsFail
    \/ DetailRouteRenders
    \/ EarlierDogAnswers
    \/ EarlierQueryFails
    \/ EarlierSessionsAnswer

InitDetailRoutes == InitDetail /\ HelpersIdle /\ StatsUnmounted /\ AppIdle

SpecDetailRoutes == InitDetailRoutes /\ [][NextDetailRoutes]_vars

---------------------------------------------------------------------------
(* The auth context, the route guards and the router. *)

\* The router's location: a route of lines 3046-3087 and, for
\* /records/:id, the id.
Path(route) == [route |-> route, id |-> <<>>]

RecordPath(id) == [route |-> "/records/:id", id |-> id]

\* The id the backend gives a newly inserted dog.
NewDogId == <<"d", "9">>

Paths ==
    {Path(r) : r \in {"/", "/home", "/records", "/stats", "/dogs/new", "*"}}
       \cup {RecordPath(<<"d", "1">>)}

\* session.user of three accounts.
User(id) == Obj([k \in {"id"} |-> Str(id)])

U1 == <<"u", "1">>

U2 == <<"u", "2">>

U3 == <<"u", "3">>

Users == {User(U1), User(U2), User(U3)}

Admin == <<"a", "d", "m", "i", "n">>

\* A row of profiles as selected by lines 1135-1139: role, full_name.
Profile(role, fullName) ==
    Obj([k \in {"role", "full_name"} |-> IF k = "role" THEN Str(role) ELSE Str(fullName)])

\* The row of profiles with id = userId: u1 is an admin, u2 is not, u3 has
\* no row.
ProfileRows(userId) ==
    CASE userId = Str(U1) -> {Profile(Admin, <<"A", "n", "a">>)}
      [] userId = Str(U2) -> {Profile(<<"h", "a", "n", "d", "l", "e", "r">>, <<"B", "e", "t", "o">>)}
      [] OTHER -> {}

\* Lines 1134-1139: what the profiles query of loadProfile(userId) may
\* answer: the row, or an error.
LoadProfileAnswers(userId) ==
    {[data |-> row, error |-> Null] : row \in ProfileRows(userId)}
       \cup {[data |-> Null, error |-> err] : err \in QueryErrors}

\* Lines 1141-1145: the profile that loadProfile sets.
ProfileSet(answer) ==
    IF answer.error = Null /\ Truthy(answer.data) THEN answer.data ELSE Null

Page(name) == [page |-> name]

SessionLoadingNotice == [p |-> "Cargando sesión..."]

SignInPrompt ==
    [h2 |-> "Iniciá sesión para continuar",
     p |-> "Esta página está disponible solo para usuarios autenticados."]

AdminSignInPrompt == [h2 |-> "Iniciá sesión para continuar"]

RestrictedNotice == [h2 |-> "Acceso restringido"]

\* Variant: the guard without its check of the user.
RequireAuthWhileLoadingOnly(children) ==
    IF authLoading THEN SessionLoadingNotice ELSE children

\* Lines 1186-1219
RequireAuth(children) ==
    IF authLoading THEN SessionLoadingNotice
    ELSE IF ~Truthy(authUser) THEN SignInPrompt
    ELSE children

\* Variant: any loaded profile counts as an admin's.
RequireAdminForAnyProfile(children) ==
    IF authLoading THEN SessionLoadingNotice
    ELSE IF ~Truthy(authUser) THEN AdminSignInPrompt
    ELSE IF ~Truthy(authProfile) THEN RestrictedNotice
    ELSE children

\* Lines 1221-1274
RequireAdmin(children) ==
    IF authLoading THEN SessionLoadingNotice
    ELSE IF ~Truthy(authUser) THEN AdminSignInPrompt
    ELSE IF Get(authProfile, "role") # Str(Admin) THEN RestrictedNotice
    ELSE children

\* Lines 3045-3088: the element of the route that matches the location.
Routes ==
    CASE path.route = "/" -> Page("LoginPage")
      [] path.route = "/home" -> RequireAuth(Page("Home"))
      [] path.route = "/records" -> RequireAuth(Page("Records"))
      [] path.route = "/records/:id" -> RequireAuth(Page("RecordDetail"))
      [] path.route = "/stats" -> RequireAuth(Page("Stats"))
      [] path.route = "/dogs/new" -> RequireAdmin(Page("NewDog"))
      [] OTHER -> Page("NotFound")

\* Lines 1409-1413: the effect of a LoginPage rendered with a user and
\* without loading has a redirect to make.
LoginEffectPending == path.route = "/" /\ ~authLoading /\ Truthy(authUser)

NewDogState ==
    [form |-> ndForm, loading |-> ndLoading, error |-> ndError,
     pending |-> ndPending, orphans |-> ndOrphans]

\* Lines 2839-2849: the state of a form mounted anew; the inserts of the
\* unmounted form stay in flight.
NewDogUnmounted(nd) ==
    [form |-> [dog_code |-> <<>>, name |-> <<>>], loading |-> FALSE, error |-> Null,
     pending |-> 0, orphans |-> nd.orphans + nd.pending]

\* The commit of a render with the location at p and the form's state at
\* nd: the route's element, and the form's state dropped when the form is
\* unmounted.
Commit(p, nd) ==
    /\ path' = p
    /\ mounted' = Routes'
    /\ \E next \in {IF mounted = Page("NewDog") /\ mounted' # Page("NewDog")
                    THEN NewDogUnmounted(nd) ELSE nd} :
          /\ ndForm' = next.form
          /\ ndLoading' = next.loading
          /\ ndError' = next.error
          /\ ndPending' = next.pending
          /\ ndOrphans' = next.orphans

\* The render that follows a handler that left the location at p and the
\* form's state at nd.  React runs the effects of a commit before it renders
\* the next update, so LoginPage's redirect comes first.
Rendered(p, nd) == ~LoginEffectPending /\ Commit(p, nd)

\* The pages and the helpers are not modelled next to the auth context.
PagesIdle == HelpersIdle /\ StatsUnmounted /\ DetailIdle /\ RecordsIdle

\* Lines 1124-1126: useState, at any location the application is opened at.
InitAuth ==
    /\ supabase \in BOOLEAN
    /\ authPc = "mounted"
    /\ path \in Paths
    /\ authUser = Null
    /\ authProfile = Null
    /\ authLoading = TRUE
    /\ profileLoads = EmptyBag
    /\ mounted = Routes
    /\ NewDogIdle
    /\ PagesIdle

\* Lines 1128-1132 and 1148-1170: the effect, up to the await of init;
\* with a backend client the listener is subscribed.
AuthEffect ==
    /\ authPc = "mounted"
    /\ IF ~supabase
       THEN /\ authLoading' = FALSE
            /\ authPc' = "done"
       ELSE /\ authPc' = "awaitingSession"
            /\ UNCHANGED authLoading
    /\ UNCHANGED <<authUser, authProfile, profileLoads>>
    /\ Rendered(path, NewDogState)
    /\ UNCHANGED <<helperVars, statsVars, detailVars, recordsVars>>

\* Variant: loading left as it is when there is no session.
GetSessionAnswersAndWaits ==
    /\ authPc = "awaitingSession"
    /\ \E user \in Users \cup {Null} :
          IF Truthy(user)
          THEN /\ authUser' = user
               /\ profileLoads' = profileLoads (+) SetToBag({[userId |-> user.m.id, by |-> "init"]})
               /\ authPc' = "awaitingProfile"
               /\ UNCHANGED authLoading
          ELSE /\ authPc' = "done"
               /\ UNCHANGED <<authUser, profileLoads, authLoading>>
    /\ UNCHANGED authProfile
    /\ Rendered(path, NewDogState)
    /\ UNCHANGED <<helperVars, statsVars, detailVars, recordsVars>>

\* Lines 1149-1155: getSession answered, with a session or without one.
GetSessionAnswers ==
    /\ authPc = "awaitingSession"
    /\ \E user \in Users \cup {Null} :
          IF Truthy(user)
          THEN /\ authUser' = user
               /\ profileLoads' = profileLoads (+) SetToBag({[userId |-> user.m.id, by |-> "init"]})
               /\ authPc' = "awaitingProfile"
               /\ UNCHANGED authLoading
          ELSE /\ authLoading' = FALSE
               /\ authPc' = "done"
               /\ UNCHANGED <<authUser, profileLoads>>
    /\ UNCHANGED authProfile
    /\ Rendered(path, NewDogState)
    /\ UNCHANGED <<helperVars, statsVars, detailVars, recordsVars>>

\* Lines 1135-1145: the profiles query of init's loadProfile answered;
\* loadProfile sets the profile and returns, and init, which awaits it at
\* line 1154, is resumed in a later step.
InitProfileAnswers ==
    /\ authPc = "awaitingProfile"
    /\ \E load \in {l \in BagToSet(profileLoads) : l.by = "init"} :
          /\ \E answer \in LoadProfileAnswers(load.userId) :
                authProfile' = ProfileSet(answer)
          /\ profileLoads' = profileLoads (-) SetToBag({load})
    /\ authPc' = "resuming"
    /\ UNCHANGED <<authUser, authLoading>>
    /\ Rendered(path, NewDogState)
    /\ UNCHANGED <<helperVars, statsVars, detailVars, recordsVars>>

\* Lines 1154-1155: init is resumed after its await of loadProfile and
\* calls setLoading(false).
InitResumes ==
    /\ authPc = "resuming"
    /\ authLoading' = FALSE
    /\ authPc' = "done"
    /\ UNCHANGED <<authUser, authProfile, profileLoads>>
    /\ Rendered(path, NewDogState)
    /\ UNCHANGED <<helperVars, statsVars, detailVars, recordsVars>>

\* Lines 1162-1170: the listener is called with a session (a sign-in, a
\* change of user, a refreshed token) or without one (a sign-out).
AuthStateChange ==
    /\ supabase
    /\ authPc \in {"awaitingSession", "awaitingProfile", "resuming", "done"}
    /\ \E user \in Users \cup {Null} :
          IF Truthy(user)
          THEN /\ BagCardinality(profileLoads) < MaxProfileLoads
               /\ authUser' = user
               /\ profileLoads' = profileLoads (+) SetToBag({[userId |-> user.m.id, by |-> "event"]})
               /\ UNCHANGED authProfile
          ELSE /\ authUser' = Null
               /\ authProfile' = Null
               /\ UNCHANGED profileLoads
    /\ UNCHANGED <<authLoading, authPc>>
    /\ Rendered(path, NewDogState)
    /\ UNCHANGED <<helperVars, statsVars, detailVars, recordsVars>>

\* Lines 1135-1145: the profiles query of a listener's loadProfile answered.
ProfileLoadAnswers ==
    /\ \E load \in {l \in BagToSet(profileLoads) : l.by = "event"} :
          /\ \E answer \in LoadProfileAnswers(load.userId) :
                authProfile' = ProfileSet(answer)
          /\ profileLoads' = profileLoads (-) SetToBag({load})
    /\ UNCHANGED <<authUser, authLoading, authPc>>
    /\ Rendered(path, NewDogState)
    /\ UNCHANGED <<helperVars, statsVars, detailVars, recordsVars>>

\* Lines 1409-1413: LoginPage's effect, run after the commit that rendered
\* the page with a user and without loading: navigate("/home").
LoginEffect ==
    /\ LoginEffectPending
    /\ UNCHANGED <<authUser, authProfile, authLoading, authPc, profileLoads>>
    /\ Commit(Path("/home"), NewDogState)
    /\ UNCHANGED <<helperVars, statsVars, detailVars, recordsVars>>

\* A link, a button or the history moves the location.
Navigate ==
    /\ authPc # "mounted"
    /\ UNCHANGED <<authUser, authProfile, authLoading, authPc, profileLoads>>
    /\ \E p \in Paths \ {path} : Rendered(p, NewDogState)
    /\ UNCHANGED <<helperVars, statsVars, detailVars, recordsVars>>

NextAuth ==
    \/ AuthEffect
    \/ GetSessionAnswers
    \/ InitProfileAnswers
    \/ InitResumes
    \/ AuthStateChange
    \/ ProfileLoadAnswers
    \/ LoginEffect
    \/ Navigate

SpecAuth == InitAuth /\ [][NextAuth]_vars

\* The backend answers the calls of init, and React runs the effect of a
\* committed LoginPage.
SpecAuthFair ==
    /\ SpecAuth
    /\ WF_vars(AuthEffect)
    /\ WF_vars(GetSessionAnswers)
    /\ WF_vars(InitProfileAnswers)
    /\ WF_vars(InitResumes)
    /\ WF_vars(LoginEffect)

---------------------------------------------------------------------------
(* The dog creation form, NewDog, behind its guard. *)

RequiredFieldsMessage ==
    <<"L", "o", "s", " ", "c", "a", "m", "p", "o", "s", " ", "C", "ó", "d",
      "i", "g", "o", " ", "y", " ", "N", "o", "m", "b", "r", "e", " ", "s",
      "o", "n", " ", "o", "b", "l", "i", "g", "a", "t", "o", "r", "i", "o",
      "s", ".">>

SaveErrorMessage ==
    <<"E", "r", "r", "o", "r", " ", "a", "l", " ", "g", "u", "a", "r", "d",
      "a", "r", " ", "e", "l", " ", "p", "e", "r", "r", "o", ".">>

\* String.prototype.trim
RECURSIVE TrimStart(_)
TrimStart(text) ==
    IF text # <<>> /\ IsWhiteSpace(Head(text)) THEN TrimStart(Tail(text)) ELSE text

RECURSIVE TrimEnd(_)
TrimEnd(text) ==
    IF text # <<>> /\ IsWhiteSpace(text[Len(text)])
    THEN TrimEnd(SubSeq(text, 1, Len(text) - 1))
    ELSE text

Trim(text) == TrimEnd(TrimStart(text))

\* What the user may type into Código and Nombre.
FieldTexts == {<<>>, <<" ">>, <<" ", "R", "e", "x", " ">>}

\* Lines 2851-2868: the form is rendered, with a backend client.
FormRendered == supabase /\ mounted = Page("NewDog")

\* Lines 2870-2876
handleChange ==
    /\ FormRendered
    /\ \E name \in {"dog_code", "name"} : \E value \in FieldTexts \ {ndForm[name]} :
          ndForm' = [ndForm EXCEPT ![name] = value]
    /\ UNCHANGED <<ndLoading, ndError, ndPending, ndOrphans, authVars>>
    /\ UNCHANGED <<helperVars, statsVars, detailVars, recordsVars>>

\* Line 2882
FieldsMissing(form) == Trim(form.dog_code) = <<>> \/ Trim(form.name) = <<>>

\* Variant: the insert is sent whatever the fields hold.
handleSubmitUnchecked ==
    /\ FormRendered
    /\ ndPending + ndOrphans < MaxInserts
    /\ ndError' = Null
    /\ ndLoading' = TRUE
    /\ ndPending' = ndPending + 1
    /\ UNCHANGED <<ndForm, ndOrphans, authVars>>
    /\ UNCHANGED <<helperVars, statsVars, detailVars, recordsVars>>

\* Lines 2878-2904: handleSubmit, up to the await of the insert.
handleSubmit ==
    /\ FormRendered
    /\ IF FieldsMissing(ndForm)
       THEN /\ ndError' = Str(RequiredFieldsMessage)
            /\ UNCHANGED <<ndLoading, ndPending>>
       ELSE /\ ndPending + ndOrphans < MaxInserts
            /\ ndError' = Null
            /\ ndLoading' = TRUE
            /\ ndPending' = ndPending + 1
    /\ UNCHANGED <<ndForm, ndOrphans, authVars>>
    /\ UNCHANGED <<helperVars, statsVars, detailVars, recordsVars>>

\* Lines 2906-2908 and 2912-2914: the insert answered with the new row.
InsertAnswers ==
    /\ ndPending > 0
    /\ UNCHANGED <<authUser, authProfile, authLoading, authPc, profileLoads>>
    /\ Rendered(RecordPath(NewDogId),
                [NewDogState EXCEPT !.pending = @ - 1, !.loading = FALSE])
    /\ UNCHANGED <<helperVars, statsVars, detailVars, recordsVars>>

\* Lines 2906 and 2909-2914: the insert answered with an error.
InsertFails ==
    /\ ndPending > 0
    /\ \E err \in QueryErrors : ndError' = Or(err.message, Str(SaveErrorMessage))
    /\ ndLoading' = FALSE
    /\ ndPending' = ndPending - 1
    /\ UNCHANGED <<ndForm, ndOrphans, authVars>>
    /\ UNCHANGED <<helperVars, statsVars, detailVars, recordsVars>>

\* Lines 2906-2914, for an insert of a form unmounted since: navigate still
\* acts, the state setters of the unmounted form do not.
OrphanInsertAnswers ==
    /\ ndOrphans > 0
    /\ UNCHANGED <<authUser, authProfile, authLoading, authPc, profileLoads>>
    /\ \/ Rendered(RecordPath(NewDogId), [NewDogState EXCEPT !.orphans = @ - 1])
       \/ /\ ndOrphans' = ndOrphans - 1
          /\ UNCHANGED <<path, mounted, ndForm, ndLoading, ndError, ndPending>>
    /\ UNCHANGED <<helperVars, statsVars, detailVars, recordsVars>>

NextNewDog ==
    \/ NextAuth
    \/ handleChange
    \/ handleSubmit
    \/ InsertAnswers
    \/ InsertFails
    \/ OrphanInsertAnswers

SpecNewDog == InitAuth /\ [][NextNewDog]_vars

---------------------------------------------------------------------------
(* The dog list page, Records. *)

RecordsErrorMessage ==
    <<"E", "r", "r", "o", "r", " ", "a", "l", " ", "c", "a", "r", "g", "a", "r",
      " ", "p", "e", "r", "r", "o", "s", " ", "d", "e", "s", "d", "e", " ",
      "S", "u", "p", "a", "b", "a", "s", "e">>

\* The data of a dogs query that answered without error: the rows, or null.
RecordsQueryData == {Arr(<<>>), Arr(<<Rex>>), Arr(<<Kira, Rex>>), Null}

\* Lines 1549-1551: useState
InitRecords ==
    /\ supabase \in BOOLEAN
    /\ recPc = "mounted"
    /\ recQueryError = Null
    /\ recDogs = <<>>
    /\ recLoading = supabase
    /\ recError = Null

\* Lines 1553-1557 and 1574-1588: the effect, up to its await.
RecordsEffect ==
    /\ recPc = "mounted"
    /\ IF supabase
       THEN /\ recLoading' = TRUE
            /\ recPc' = "awaiting"
            /\ UNCHANGED recDogs
       ELSE /\ recDogs' = [i \in 1..Len(MOCK_ENTRIES) |-> MockDog(MOCK_ENTRIES[i])]
            /\ recLoading' = FALSE
            /\ recPc' = "done"
    /\ UNCHANGED <<recQueryError, recError, authVars, newDogVars, helperVars, statsVars,
                   detailVars>>

\* Lines 1565-1566 and 1570-1572: the query answered with data.
RecordsQueryAnswers ==
    /\ recPc = "awaiting"
    /\ \E data \in RecordsQueryData : recDogs' = IF Truthy(data) THEN data.a ELSE <<>>
    /\ recLoading' = FALSE
    /\ recPc' = "done"
    /\ UNCHANGED <<recQueryError, recError, authVars, newDogVars, helperVars, statsVars,
                   detailVars>>

\* Lines 1565 and 1567-1572: the query answered with an error.
RecordsQueryFails ==
    /\ recPc = "awaiting"
    /\ \E err \in QueryErrors :
          /\ recQueryError' = err
          /\ recError' = Or(err.message, Str(RecordsErrorMessage))
    /\ recLoading' = FALSE
    /\ recPc' = "done"
    /\ UNCHANGED <<recDogs, authVars, newDogVars, helperVars, statsVars, detailVars>>

NextRecords == RecordsEffect \/ RecordsQueryAnswers \/ RecordsQueryFails

---------------------------------------------------------------------------
(* The three pages that fetch when they mount: one of them is mounted. *)

InitPages ==
    \/ Init
    \/ InitDetail /\ HelpersIdle /\ StatsUnmounted /\ AppIdle
    \/ InitRecords /\ HelpersIdle /\ StatsUnmounted /\ DetailIdle /\ AuthIdle /\ NewDogIdle

NextPages == Next \/ NextDetailRoutes \/ NextRecords

SpecPages == InitPages /\ [][NextPages]_vars

---------------------------------------------------------------------------
(* Calls of buildConditionDistributions with a requested bin count. *)

\* The values a session of a cohort may hold under temp: numbers, a numeric
\* text, and null for a value that is absent.
CohortValues ==
    {Num(RInt(0)), Num(Rat(7, 10)), Num(Rat(21, 10)), Num(RInt(5)), Num(RInt(10)),
     Str(<<"2", ".", "5">>), Null}

CohortsOf(result) ==
    SeqsUpTo({DetailRow(Str(result), Temp(v)) : v \in CohortValues}, MaxCohort)

BinCounts == {1, 2, 3, DefaultBinCount}

InitDistributions ==
    /\ hFn = "buildConditionDistributions"
    /\ hArg \in [successSessions : CohortsOf(Success), failSessions : CohortsOf(Fail),
                  key : {"temp"}, binCount : BinCounts]
    /\ hDone = FALSE
    /\ hRet = Undefined
    /\ StatsIdle
    /\ DetailIdle
    /\ AppIdle

CallBuildConditionDistributions ==
    /\ hFn = "buildConditionDistributions" /\ ~hDone
    /\ hRet' = buildConditionDistributions(hArg.successSessions, hArg.failSessions,
                                           hArg.key, hArg.binCount)
    /\ hDone' = TRUE
    /\ UNCHANGED <<hFn, hArg, statsVars, detailVars, appVars>>

NextDistributions == CallBuildConditionDistributions

SpecDistributions == InitDistributions /\ [][NextDistributions]_vars

---------------------------------------------------------------------------
(* The aggregators called on a session list and on a reordering of it. *)

\* The reorderings of a list of n elements.
Reorderings(n) ==
    {p \in [1..n -> 1..n] : \A i \in 1..n : \A j \in 1..n : p[i] = p[j] => i = j}

Permuted(a, p) == [i \in 1..Len(a) |-> a[p[i]]]

\* A list together with one of its reorderings.
PermutedPairs(lists) ==
    UNION {{[first |-> a, second |-> Permuted(a, p)] : p \in Reorderings(Len(a))} :
              a \in lists}

\* The rows of the sessions query for two of the dogs.
PermutedPool == {s \in SessionPool : s.dog_id # D3}

\* Lines 1876-1881 and 1901-1914: RecordDetail's cohorts of a session
\* list, binned and summarised for a condition.
distributionsOf(sessions, key) ==
    buildConditionDistributions(successSessionsOf(sessions), failSessionsOf(sessions),
                                key, DefaultBinCount)

InitPermutations ==
    /\ \/ /\ hFn = "processSessions"
          /\ hArg \in PermutedPairs(SeqsUpTo(PermutedPool, MaxSessions))
       \/ /\ hFn = "distributions"
          /\ \E pair \in PermutedPairs(DetailLists) : \E key \in {"temp", "hum"} :
                hArg = [first |-> pair.first, second |-> pair.second, key |-> key]
    /\ hDone = FALSE
    /\ hRet = Undefined
    /\ StatsIdle
    /\ DetailIdle
    /\ AppIdle

CallProcessSessionsOnBoth ==
    /\ hFn = "processSessions" /\ ~hDone
    /\ hRet' = [first |-> processSessions(hArg.first),
                second |-> processSessions(hArg.second)]
    /\ hDone' = TRUE
    /\ UNCHANGED <<hFn, hArg, statsVars, detailVars, appVars>>

CallDistributionsOnBoth ==
    /\ hFn = "distributions" /\ ~hDone
    /\ hRet' = [first |-> distributionsOf(hArg.first, hArg.key),
                second |-> distributionsOf(hArg.second, hArg.key)]
    /\ hDone' = TRUE
    /\ UNCHANGED <<hFn, hArg, statsVars, detailVars, appVars>>

NextPermutations == CallProcessSessionsOnBoth \/ CallDistributionsOnBoth

SpecPermutations == InitPermutations /\ [][NextPermutations]_vars

---------------------------------------------------------------------------
(* The arrays, objects and Maps of a call as the cells of a heap.  A value *)
(* that is an array, an object or a Map is a reference to its cell; an     *)
(* expression that makes one ([...a], {...}, new Map(), Array.from, map,   *)
(* filter) adds a cell, and a statement that writes to one (sort, set,     *)
(* += on a field) replaces the contents of its cell.  A session row is one *)
(* cell, together with the objects nested in it, which the functions only  *)
(* read.  The operators below follow, statement by statement, what         *)
(* computeNumericStats, buildConditionDistributions, processSessions and   *)
(* the rankings of the Stats page make and write; the numbers and texts    *)
(* they compute are those of the operators above.                          *)

At(r) == [t |-> "ref", r |-> r]

Cell(heap, ref) == heap[ref.r]

New(heap, contents) == Append(heap, contents)

Write(heap, ref, contents) == [heap EXCEPT ![ref.r] = contents]

\* The cells the elements of an array of references refer to.
Elements(heap, arr) ==
    [i \in 1..Len(Cell(heap, arr)) |-> Cell(heap, Cell(heap, arr)[i])]

\* The references to n cells made one after the other on a heap.
NewRefs(heap, n) == [i \in 1..n |-> At(Len(heap) + i)]

\* An array of objects on the heap: the objects, then the array of them.
\* The result of a step is the heap after it and the reference it yields.
NewObjects(heap, objects) ==
    [heap |-> New(heap \o objects, NewRefs(heap, Len(objects))),
     at |-> At(Len(heap) + Len(objects) + 1)]

\* Variant: the array itself where the code takes a copy of it.
TheArrayItself(heap, arr) == [heap |-> heap, at |-> arr]

\* [...arr]: a new array with the elements of arr.
SpreadCopy(heap, arr) == [heap |-> New(heap, Cell(heap, arr)), at |-> At(Len(heap) + 1)]

\* .sort((a, b) => a - b), called on the array of numbers at c.at: the sort
\* orders the array it is called on and returns it.
SortedAscending(c) ==
    [heap |-> Write(c.heap, c.at, SortAscending(Cell(c.heap, c.at))), at |-> c.at]

\* A Map is the sequence of its entries, each a key and a value, in
\* insertion order.
MapHas(entries, key) == \E i \in 1..Len(entries) : entries[i].key = key

MapGet(entries, key) ==
    entries[CHOOSE i \in 1..Len(entries) : entries[i].key = key].value

MapSet(entries, key, value) ==
    IF MapHas(entries, key)
    THEN [entries EXCEPT ![CHOOSE i \in 1..Len(entries) : entries[i].key = key].value = value]
    ELSE Append(entries, [key |-> key, value |-> value])

\* (freq.get(v) || 0) + 1
NextCount(entries, v) == (IF MapHas(entries, v) THEN MapGet(entries, v) ELSE 0) + 1

\* Lines 1701-1703: c = (freq.get(v) || 0) + 1 and freq.set(v, c) for the
\* elements of sorted from i on.
RECURSIVE CountFreq(_, _, _, _)
CountFreq(heap, freq, sorted, i) ==
    IF i > Len(sorted) THEN heap
    ELSE CountFreq(Write(heap, freq,
                         MapSet(Cell(heap, freq), sorted[i],
                                NextCount(Cell(heap, freq), sorted[i]))),
                   freq, sorted, i + 1)

\* Lines 1687-1710: freq = new Map(), the forEach, and the object returned,
\* for the sorted copy.
SummaryOfSorted(heap, sorted) ==
    [heap |-> New(CountFreq(New(heap, <<>>), At(Len(heap) + 1), sorted, 1),
                  [t |-> "object",
                   mean |-> MeanOf(sorted),
                   median |-> MedianOf(sorted),
                   mode |-> ModeLoop(sorted, 1, [k \in {} |-> 0], sorted[1], 0)]),
     at |-> At(Len(heap) + 2)]

SummaryAt(c) == SummaryOfSorted(c.heap, Cell(c.heap, c.at))

\* Lines 1683-1711, for values null, undefined or the reference to an array.
computeNumericStatsOnHeap(heap, values) ==
    IF ~Truthy(values) THEN [heap |-> heap, at |-> Null]
    ELSE IF Len(Cell(heap, values)) = 0 THEN [heap |-> heap, at |-> Null]
    ELSE SummaryAt(SortedAscending(SpreadCopy(heap, values)))

\* What a reference or null stands for: the contents of the cell, or null.
CellOrNull(heap, ref) == IF ref.t = "ref" THEN Cell(heap, ref) ELSE Null

\* A frame of a call: the heap and the references of its consts, in the
\* order in which they are made.
Frame(heap) == [heap |-> heap, refs |-> <<>>]

Push(f, c) == [heap |-> c.heap, refs |-> Append(f.refs, c.at)]

\* sessions.map((s) => getConditionValue(s, key)): a new array.
ConditionValues(heap, sessions, key) ==
    [i \in 1..Len(Cell(heap, sessions)) |->
        getConditionValue(Cell(heap, Cell(heap, sessions)[i]), key)]

\* Lines 1720-1725: map, then filter((v) => v !== null): two new arrays.
PresentValuesOnHeap(heap, sessions, key) ==
    [heap |-> New(New(heap, ConditionValues(heap, sessions, key)),
                  PresentValues(Elements(heap, sessions), key)),
     at |-> At(Len(heap) + 2)]

\* Line 1727: [...successVals, ...failVals]
Concatenated(heap, a, b) ==
    [heap |-> New(heap, Cell(heap, a) \o Cell(heap, b)), at |-> At(Len(heap) + 1)]

\* Lines 1728-1735: the object returned for no value, with its two arrays.
NoDistributionOnHeap(heap) ==
    [heap |-> New(New(New(heap, <<>>), <<>>),
                  [binsSuccess |-> At(Len(heap) + 1), binsFail |-> At(Len(heap) + 2),
                   statsSuccess |-> Null, statsFail |-> Null]),
     at |-> At(Len(heap) + 3)]

\* Lines 1758-1761: bins[idx].success += 1 for the values from i on.
RECURSIVE CountSuccessOnHeap(_, _, _, _, _, _, _)
CountSuccessOnHeap(heap, bins, vals, i, min, step, effectiveBinCount) ==
    IF i > Len(vals) THEN heap
    ELSE CountSuccessOnHeap(
             [heap EXCEPT ![Cell(heap, bins)[getIndex(vals[i], min, step,
                                                      effectiveBinCount) + 1].r].success
                              = @ + 1],
             bins, vals, i + 1, min, step, effectiveBinCount)

\* Lines 1763-1766: bins[idx].fail += 1 for the values from i on.
RECURSIVE CountFailOnHeap(_, _, _, _, _, _, _)
CountFailOnHeap(heap, bins, vals, i, min, step, effectiveBinCount) ==
    IF i > Len(vals) THEN heap
    ELSE CountFailOnHeap(
             [heap EXCEPT ![Cell(heap, bins)[getIndex(vals[i], min, step,
                                                      effectiveBinCount) + 1].r].fail
                              = @ + 1],
             bins, vals, i + 1, min, step, effectiveBinCount)

\* The two forEach loops on a frame with successVals, failVals, allVals
\* and bins.
Counted(f, min, step, effectiveBinCount) ==
    [heap |-> CountFailOnHeap(
                  CountSuccessOnHeap(f.heap, f.refs[4], Cell(f.heap, f.refs[1]), 1,
                                     min, step, effectiveBinCount),
                  f.refs[4], Cell(f.heap, f.refs[2]), 1, min, step, effectiveBinCount),
     refs |-> f.refs]

\* Lines 1773-1781: bins.map((b) => ({ range: formatLabel(b), count: ... })).
BinsSuccessOf(bins, effectiveBinCount) ==
    [j \in 1..Len(bins) |->
        [range |-> formatLabel(bins[j], effectiveBinCount), count |-> bins[j].success]]

BinsFailOf(bins, effectiveBinCount) ==
    [j \in 1..Len(bins) |->
        [range |-> formatLabel(bins[j], effectiveBinCount), count |-> bins[j].fail]]

WithBinsSuccess(f, effectiveBinCount) ==
    Push(f, NewObjects(f.heap, BinsSuccessOf(Elements(f.heap, f.refs[4]),
                                             effectiveBinCount)))

WithBinsFail(f, effectiveBinCount) ==
    Push(f, NewObjects(f.heap, BinsFailOf(Elements(f.heap, f.refs[4]),
                                          effectiveBinCount)))

\* computeNumericStats of the array that is const i of the frame.
WithStatsOf(f, i) == Push(f, computeNumericStatsOnHeap(f.heap, f.refs[i]))

\* Lines 1783-1788: the object returned, on a frame with successVals,
\* failVals, allVals, bins, binsSuccess, binsFail and the two summaries.
Returning(f) ==
    [heap |-> New(f.heap, [binsSuccess |-> f.refs[5], binsFail |-> f.refs[6],
                           statsSuccess |-> f.refs[7], statsFail |-> f.refs[8]]),
     at |-> At(Len(f.heap) + 1)]

\* Lines 1744-1788 on a frame with successVals, failVals and allVals.
DistributeOnHeap(f, min, max, effectiveBinCount, step) ==
    Returning(
        WithStatsOf(
            WithStatsOf(
                WithBinsFail(
                    WithBinsSuccess(
                        Counted(Push(f, NewObjects(f.heap,
                                                   MakeBins(min, max, effectiveBinCount,
                                                            step))),
                                min, step, effectiveBinCount),
                        effectiveBinCount),
                    effectiveBinCount),
                1),
            2))

\* Lines 1737-1742: min, max, effectiveBinCount and step.
DistributeRangeOnHeap(f, min, max, binCount) ==
    DistributeOnHeap(f, min, max, IF min = max THEN 1 ELSE binCount,
                     StepOf(min, max, IF min = max THEN 1 ELSE binCount))

\* Lines 1727-1738 on a frame with successVals, failVals and allVals.
DistributeFrame(f, allVals, binCount) ==
    IF Len(allVals) = 0 THEN NoDistributionOnHeap(f.heap)
    ELSE DistributeRangeOnHeap(f, MathMin(allVals), MathMax(allVals), binCount)

WithAllVals(f) == Push(f, Concatenated(f.heap, f.refs[1], f.refs[2]))

DistributeAllVals(f, binCount) == DistributeFrame(f, Cell(f.heap, f.refs[3]), binCount)

WithPresentValues(f, sessions, key) == Push(f, PresentValuesOnHeap(f.heap, sessions, key))

\* Lines 1714-1789, for the references to the two arrays of sessions.
buildConditionDistributionsOnHeap(heap, successArr, failArr, key, binCount) ==
    DistributeAllVals(
        WithAllVals(WithPresentValues(WithPresentValues(Frame(heap), successArr, key),
                                      failArr, key)),
        binCount)

\* What the object a call of buildConditionDistributions returned holds.
DistributionsAt(heap, ret) ==
    [binsSuccess |-> Elements(heap, Cell(heap, ret).binsSuccess),
     binsFail |-> Elements(heap, Cell(heap, ret).binsFail),
     statsSuccess |-> CellOrNull(heap, Cell(heap, ret).statsSuccess),
     statsFail |-> CellOrNull(heap, Cell(heap, ret).statsFail)]

\* .sort((a, b) => b[key] - a[key]) on an array of references to per-dog
\* entries, stable.
RECURSIVE InsertRefDescending(_, _, _, _)
InsertRefDescending(heap, x, s, key) ==
    IF s = <<>> THEN <<x>>
    ELSE IF NumLess(KeyValue(Cell(heap, Head(s)), key), KeyValue(Cell(heap, x), key))
         THEN <<x>> \o s
    ELSE <<Head(s)>> \o InsertRefDescending(heap, x, Tail(s), key)

RECURSIVE SortRefsDescending(_, _, _)
SortRefsDescending(heap, s, key) ==
    IF s = <<>> THEN <<>>
    ELSE InsertRefDescending(heap, s[Len(s)],
                             SortRefsDescending(heap, SubSeq(s, 1, Len(s) - 1), key), key)

SortedDescending(c, key) ==
    [heap |-> Write(c.heap, c.at, SortRefsDescending(c.heap, Cell(c.heap, c.at), key)),
     at |-> c.at]

\* Lines 2265-2277: the body of a useMemo ranking.
RankByOnHeap(heap, stats, key) ==
    IF Len(Cell(heap, stats)) = 0
    THEN [heap |-> New(heap, <<>>), at |-> At(Len(heap) + 1)]
    ELSE SortedDescending(SpreadCopy(heap, stats), key)

\* Lines 2279-2284: ranking.map((d) => ...), a new array of numbers.
KeyValuesOnHeap(heap, ranking, key) ==
    [heap |-> New(heap, [i \in 1..Len(Cell(heap, ranking)) |->
                            KeyValue(Cell(heap, Cell(heap, ranking)[i]), key)]),
     at |-> At(Len(heap) + 1)]

WithRanking(f, stats, key) == Push(f, RankByOnHeap(f.heap, stats, key))

WithKeyValues(f, i, key) == Push(f, KeyValuesOnHeap(f.heap, f.refs[i], key))

\* Lines 2260-2288 of a render of Stats: successRanking, failRanking,
\* successValuesForStats, failValuesForStats and the two summaries.
rankingsOnHeap(heap, stats, mode) ==
    WithStatsOf(
        WithStatsOf(
            WithKeyValues(
                WithKeyValues(
                    WithRanking(
                        WithRanking(Frame(heap), stats,
                                    IF mode = "absolute" THEN "success" ELSE "successRate"),
                        stats, IF mode = "absolute" THEN "fail" ELSE "failRate"),
                    1, IF mode = "absolute" THEN "success" ELSE "successRate"),
                2, IF mode = "absolute" THEN "fail" ELSE "failRate"),
            3),
        4)

\* The entry of key in the Map at map: on first encounter the object fresh
\* is made and set, map.set(key, { ... }).
WithEntry(heap, map, key, fresh) ==
    IF MapHas(Cell(heap, map), key) THEN heap
    ELSE Write(New(heap, fresh), map,
               MapSet(Cell(heap, map), key, At(Len(heap) + 1)))

\* entry = map.get(key); entry.total += 1; and entry.success += 1 or
\* entry.fail += 1.
CountEntry(heap, map, key, isSuccess) ==
    Write(heap, MapGet(Cell(heap, map), key),
          Bump(Cell(heap, MapGet(Cell(heap, map), key)), isSuccess))

CountedEntry(heap, map, key, fresh, isSuccess) ==
    CountEntry(WithEntry(heap, map, key, fresh), map, key, isSuccess)

\* Lines 2378-2400
perDogStepOnHeap(heap, perDogMap, s, isSuccess) ==
    CountedEntry(heap, perDogMap, Or(Get(s.dogs, "id"), s.dog_id),
                 [dogId |-> Or(Get(s.dogs, "id"), s.dog_id),
                  name |-> Or(Get(s.dogs, "name"), Str(UnnamedDog)),
                  code |-> Or(Get(s.dogs, "dog_code"), Str(<<>>)),
                  total |-> 0, success |-> 0, fail |-> 0],
                 isSuccess)

\* Lines 2402-2415
scentStepOnHeap(heap, scentMap, s, isSuccess) ==
    CountedEntry(heap, scentMap, ScentOf(s),
                 [scent |-> ScentOf(s), total |-> 0, success |-> 0, fail |-> 0],
                 isSuccess)

\* Lines 2421-2436, for the value v of a key.
condCountOnHeap(heap, map, v, isSuccess) ==
    IF ~NumberIsFinite(v) THEN heap
    ELSE CountedEntry(heap, map, v.q,
                      [value |-> v.q, total |-> 0, success |-> 0, fail |-> 0],
                      isSuccess)

condStepOnHeap(heap, condMaps, s, key, isSuccess) ==
    condCountOnHeap(heap, Cell(heap, condMaps)[key], CondValue(s, key), isSuccess)

\* Lines 2361-2372: the Maps and the object of them; the counters are
\* variables of the call.
NewMaps(heap) ==
    [heap |-> New(heap \o <<<<>>, <<>>, <<>>, <<>>, <<>>, <<>>>>,
                  [temp |-> At(Len(heap) + 3), hum |-> At(Len(heap) + 4),
                   press |-> At(Len(heap) + 5), wind |-> At(Len(heap) + 6)]),
     perDogMap |-> At(Len(heap) + 1),
     scentMap |-> At(Len(heap) + 2),
     condMaps |-> At(Len(heap) + 7),
     totalSessions |-> 0, totalSuccess |-> 0, totalFail |-> 0]

\* The body of sessions.forEach for the session s, isSuccess known.
SessionCountOnHeap(st, s, isSuccess) ==
    [heap |-> condStepOnHeap(
                  condStepOnHeap(
                      condStepOnHeap(
                          condStepOnHeap(
                              scentStepOnHeap(
                                  perDogStepOnHeap(st.heap, st.perDogMap, s, isSuccess),
                                  st.scentMap, s, isSuccess),
                              st.condMaps, s, "temp", isSuccess),
                          st.condMaps, s, "hum", isSuccess),
                      st.condMaps, s, "press", isSuccess),
                  st.condMaps, s, "wind", isSuccess),
     perDogMap |-> st.perDogMap,
     scentMap |-> st.scentMap,
     condMaps |-> st.condMaps,
     totalSessions |-> st.totalSessions + 1,
     totalSuccess |-> IF isSuccess THEN st.totalSuccess + 1 ELSE st.totalSuccess,
     totalFail |-> IF isSuccess THEN st.totalFail ELSE st.totalFail + 1]

SessionStepOnHeap(st, s) == SessionCountOnHeap(st, s, processSessionsIsSuccess(s))

RECURSIVE ForEachSessionOnHeap(_, _)
ForEachSessionOnHeap(sessions, st) ==
    IF st.totalSessions = Len(sessions) THEN st
    ELSE ForEachSessionOnHeap(
             sessions,
             SessionStepOnHeap(st, Cell(st.heap, sessions[st.totalSessions + 1])))

\* The objects that are the values of the Map at map, in insertion order.
ValuesOf(heap, map) ==
    [i \in 1..Len(Cell(heap, map)) |-> Cell(heap, Cell(heap, map)[i].value)]

\* Array.from(map.values()).map(...): the array of the values, and the
\* array of the objects made of them.
MappedValues(heap, map, objects) ==
    NewObjects(New(heap, [i \in 1..Len(Cell(heap, map)) |-> Cell(heap, map)[i].value]),
               objects)

\* arr.sort((a, b) => a.value - b.value) on an array of references, stable.
RECURSIVE InsertRefByValue(_, _, _)
InsertRefByValue(heap, x, s) ==
    IF s = <<>> THEN <<x>>
    ELSE IF RLess(Cell(heap, x).value, Cell(heap, Head(s)).value) THEN <<x>> \o s
    ELSE <<Head(s)>> \o InsertRefByValue(heap, x, Tail(s))

RECURSIVE SortRefsByValue(_, _)
SortRefsByValue(heap, s) ==
    IF s = <<>> THEN <<>>
    ELSE InsertRefByValue(heap, s[Len(s)], SortRefsByValue(heap, SubSeq(s, 1, Len(s) - 1)))

SortedByValue(c) ==
    [heap |-> Write(c.heap, c.at, SortRefsByValue(c.heap, Cell(c.heap, c.at))), at |-> c.at]

\* Lines 2474-2486
buildSeriesOnHeap(heap, map) ==
    SortedByValue(MappedValues(heap, map, SeriesOf(ValuesOf(heap, map))))

\* Lines 2440-2447: the object handed to setGlobalKpis.
GlobalKpisOnHeap(st) ==
    [heap |-> New(st.heap,
                  [totalSessions |-> st.totalSessions,
                   totalDogs |-> Len(Cell(st.heap, st.perDogMap)),
                   successRate |-> PercentRounded(st.totalSuccess, st.totalSessions),
                   totalFails |-> st.totalFail]),
     at |-> At(Len(st.heap) + 1)]

WithPerDogArr(f, perDogMap) ==
    Push(f, MappedValues(f.heap, perDogMap, perDogArr(ValuesOf(f.heap, perDogMap))))

WithScentArr(f, scentMap) ==
    Push(f, MappedValues(f.heap, scentMap, scentArr(ValuesOf(f.heap, scentMap))))

WithSeries(f, condMaps, key) == Push(f, buildSeriesOnHeap(f.heap, Cell(f.heap, condMaps)[key]))

\* Lines 2488-2493: the object handed to setConditionSeries, on a frame
\* with the four series after globalKpis, perDogArr and scentArr.
WithConditionSeries(f) ==
    [heap |-> New(f.heap, [temp |-> f.refs[4], hum |-> f.refs[5],
                           press |-> f.refs[6], wind |-> f.refs[7]]),
     refs |-> <<f.refs[1], f.refs[2], f.refs[3], At(Len(f.heap) + 1)>>]

\* Lines 2440-2493: what the four setters are handed.
PublishOnHeap(st) ==
    WithConditionSeries(
        WithSeries(
            WithSeries(
                WithSeries(
                    WithSeries(
                        WithScentArr(
                            WithPerDogArr(Push(Frame(st.heap), GlobalKpisOnHeap(st)),
                                          st.perDogMap),
                            st.scentMap),
                        st.condMaps, "temp"),
                    st.condMaps, "hum"),
                st.condMaps, "press"),
            st.condMaps, "wind"))

\* Lines 2343-2358: what the four setters are handed for an empty list.
PublishNothingOnHeap(heap) ==
    [heap |-> New(heap \o <<[totalSessions |-> 0, totalDogs |-> 0,
                             successRate |-> 0, totalFails |-> 0],
                            <<>>, <<>>, <<>>, <<>>, <<>>, <<>>>>,
                  [temp |-> At(Len(heap) + 4), hum |-> At(Len(heap) + 5),
                   press |-> At(Len(heap) + 6), wind |-> At(Len(heap) + 7)]),
     refs |-> <<At(Len(heap) + 1), At(Len(heap) + 2), At(Len(heap) + 3),
                At(Len(heap) + 8)>>]

\* Lines 2342-2494, for the reference to the array of sessions: the heap
\* after the call, with what globalKpis, perDogStats, scentStats and
\* conditionSeries are set to.
processSessionsOnHeap(heap, sessions) ==
    IF Len(Cell(heap, sessions)) = 0 THEN PublishNothingOnHeap(heap)
    ELSE PublishOnHeap(ForEachSessionOnHeap(Cell(heap, sessions), NewMaps(heap)))

\* What the four states hold once set.
PublishedAt(heap, refs) ==
    [globalKpis |-> Cell(heap, refs[1]),
     perDogStats |-> Elements(heap, refs[2]),
     scentStats |-> Elements(heap, refs[3]),
     conditionSeries |->
        [k \in ConditionKeys |-> Elements(heap, Cell(heap, refs[4])[k])]]

\* An array of objects as it stands on a heap of its own.
ArrayOf(objects) == NewObjects(<<>>, objects)

\* Two arrays on one heap: the sessions of a dog, and the cohorts that
\* RecordDetail filters from them (lines 1876-1881), which share the rows.
IsSuccessAmong(rows) == {i \in 1..Len(rows) : isSuccessResult(rows[i].result)}

RefsWhere(S, n) == SelectSeq([i \in 1..n |-> At(i)], LAMBDA ref : ref.r \in S)

CohortsOnHeap(rows) ==
    [heap |-> rows \o <<RefsWhere(IsSuccessAmong(rows), Len(rows)),
                        RefsWhere((1..Len(rows)) \ IsSuccessAmong(rows), Len(rows))>>,
     successSessions |-> At(Len(rows) + 1),
     failSessions |-> At(Len(rows) + 2)]

HeapCalls ==
    {"computeNumericStats", "buildConditionDistributions", "processSessions", "rankings"}

InitHeap ==
    /\ \/ /\ hFn = "computeNumericStats"
          /\ \/ \E a \in SeqsUpTo(NumPool, MaxLen) :
                   hArg = [heap |-> <<a>>, values |-> At(1)]
             \/ \E v \in {Null, Undefined} : hArg = [heap |-> <<>>, values |-> v]
       \/ /\ hFn = "buildConditionDistributions"
          /\ \E rows \in DetailLists : \E key \in {"temp", "hum"} :
                \E c \in {CohortsOnHeap(rows)} :
                   hArg = [heap |-> c.heap, successSessions |-> c.successSessions,
                           failSessions |-> c.failSessions, key |-> key,
                           binCount |-> DefaultBinCount]
       \/ /\ hFn = "processSessions"
          /\ \E rows \in SessionLists : \E c \in {ArrayOf(rows)} :
                hArg = [heap |-> c.heap, sessions |-> c.at]
       \/ /\ hFn = "rankings"
          /\ \E rows \in SessionLists : \E mode \in {"absolute", "rate"} :
                \E c \in {ArrayOf(processSessions(rows).perDogStats)} :
                   hArg = [heap |-> c.heap, perDogStats |-> c.at, mode |-> mode]
    /\ hDone = FALSE
    /\ hRet = Undefined
    /\ StatsIdle
    /\ DetailIdle
    /\ AppIdle

CallComputeNumericStatsOnHeap ==
    /\ hFn = "computeNumericStats" /\ ~hDone
    /\ \E c \in {computeNumericStatsOnHeap(hArg.heap, hArg.values)} :
          hRet' = [heap |-> c.heap, value |-> CellOrNull(c.heap, c.at)]
    /\ hDone' = TRUE
    /\ UNCHANGED <<hFn, hArg, statsVars, detailVars, appVars>>

CallBuildConditionDistributionsOnHeap ==
    /\ hFn = "buildConditionDistributions" /\ ~hDone
    /\ \E c \in {buildConditionDistributionsOnHeap(hArg.heap, hArg.successSessions,
                                                   hArg.failSessions, hArg.key,
                                                   hArg.binCount)} :
          hRet' = [heap |-> c.heap, value |-> DistributionsAt(c.heap, c.at)]
    /\ hDone' = TRUE
    /\ UNCHANGED <<hFn, hArg, statsVars, detailVars, appVars>>

CallProcessSessionsOnHeap ==
    /\ hFn = "processSessions" /\ ~hDone
    /\ \E f \in {processSessionsOnHeap(hArg.heap, hArg.sessions)} :
          hRet' = [heap |-> f.heap, value |-> PublishedAt(f.heap, f.refs)]
    /\ hDone' = TRUE
    /\ UNCHANGED <<hFn, hArg, statsVars, detailVars, appVars>>

CallRankingsOnHeap ==
    /\ hFn = "rankings" /\ ~hDone
    /\ \E f \in {rankingsOnHeap(hArg.heap, hArg.perDogStats, hArg.mode)} :
          hRet' = [heap |-> f.heap,
                   value |-> [successRanking |-> Elements(f.heap, f.refs[1]),
                              failRanking |-> Elements(f.heap, f.refs[2]),
                              successStatsGlobal |-> CellOrNull(f.heap, f.refs[5]),
                              failStatsGlobal |-> CellOrNull(f.heap, f.refs[6])]]
    /\ hDone' = TRUE
    /\ UNCHANGED <<hFn, hArg, statsVars, detailVars, appVars>>

NextHeap ==
    \/ CallComputeNumericStatsOnHeap
    \/ CallBuildConditionDistributionsOnHeap
    \/ CallProcessSessionsOnHeap
    \/ CallRankingsOnHeap

SpecHeap == InitHeap /\ [][NextHeap]_vars

---------------------------------------------------------------------------
(* The aggregation helpers and the two pages together: computeNumericStats *)
(* or buildConditionDistributions is under call, or one of the pages is    *)
(* mounted.                                                                *)

InitApp ==
    \/ /\ hFn = "computeNumericStats" /\ hArg \in ValuesInputs
       /\ hDone = FALSE /\ hRet = Undefined
       /\ StatsIdle /\ DetailIdle /\ AppIdle
    \/ InitDistributions
    \/ Init
    \/ InitDetail /\ HelpersIdle /\ StatsUnmounted /\ AppIdle

NextApp ==
    \/ CallComputeNumericStats
    \/ CallBuildConditionDistributions
    \/ Next
    \/ NextDetail

SpecApp == InitApp /\ [][NextApp]_vars

---------------------------------------------------------------------------
(* Claims about the helpers, checked under SpecHelpers. *)

Returned(fn) == hFn = fn /\ hDone

\* A text that is "success" letter by letter, each letter in either case.
IsSuccessToken(v) ==
    /\ v.t = "string"
    /\ Len(v.s) = Len(Success)
    /\ \A i \in 1..Len(Success) : v.s[i] \in {Success[i], ToUpperChar(Success[i])}

\* C1: isSuccessResult, and the same test inside processSessions, answer true
\* exactly for a result that is the token "success" in any mix of case; a
\* missing or empty result, other text, text with surrounding whitespace and
\* values that are not text are failures, and every call returns.
C1_ClassifierIsCaseInsensitiveEquality ==
    /\ Returned("isSuccessResult") => hRet = Bool(IsSuccessToken(hArg))
    /\ Returned("processSessionsIsSuccess") => hRet = Bool(IsSuccessToken(hArg.result))
    /\ (hFn \in {"isSuccessResult", "processSessionsIsSuccess"} /\ ~hDone)
          => ENABLED (CallIsSuccessResult \/ CallProcessSessionsIsSuccess)

C1_Witness ==
    /\ Returned("isSuccessResult")
    /\ hArg = Str(<<"S", "U", "C", "C", "E", "S", "S">>)
    /\ hRet = Bool(TRUE)

HasDigit(w) == \E i \in 1..Len(w) : IsDigit(w[i])

\* Texts whose parseFloat value is known from the language definition.
KnownTexts ==
    {[text |-> <<"2">>, value |-> Num(RInt(2))],
     [text |-> <<"2", "1", ".", "5", "0">>, value |-> Num(Rat(43, 2))],
     [text |-> <<"1", "e", "-", "1">>, value |-> Num(Rat(1, 10))],
     [text |-> <<"1", "e", "1">>, value |-> Num(RInt(10))],
     [text |-> <<".", "1">>, value |-> Num(Rat(1, 10))],
     [text |-> <<"1", ".">>, value |-> Num(RInt(1))],
     [text |-> <<"-", "1", "2">>, value |-> Num(RInt(-12))],
     [text |-> <<" ", "2">>, value |-> Num(RInt(2))],
     [text |-> <<"2", "x">>, value |-> Num(RInt(2))],
     [text |-> <<"0">>, value |-> Num(RInt(0))],
     [text |-> <<"x", "2">>, value |-> Null],
     [text |-> <<"e", "1">>, value |-> Null],
     [text |-> <<"-", "-", "1">>, value |-> Null],
     [text |-> <<>>, value |-> Null],
     [text |-> <<"I", "n", "f", "i", "n", "i", "t", "y">>, value |-> Null],
     [text |-> <<"n", "o", "t", "-", "a", "-", "n", "u", "m", "b", "e", "r">>,
      value |-> Null]}

\* Numbers whose decimal text is within the texts tried.
DecimalPool == {Rat(n, d) : n \in -22..22, d \in {1, 10}}

\* C2: getConditionValue returns a finite number or null. A missing
\* conditions mapping, a missing key, a value that is neither number nor
\* text, a non-finite number and text that does not parse (no digit at all,
\* or no number at its start) give null, never 0; a finite number is
\* returned as it is and numeric text gives the number it denotes.
C2_ConditionValueIsFiniteOrAbsent ==
    Returned("getConditionValue") =>
        LET c == hArg.session.conditions
            present == c.t = "object" /\ hArg.key \in DOMAIN c.m
            raw == c.m[hArg.key]
        IN /\ hRet = Null \/ (hRet.t = "number" /\ hRet.q.den > 0)
           /\ ~present => hRet = Null
           /\ (present /\ raw.t = "number") => hRet = raw
           /\ (present /\ raw.t \notin {"number", "string"}) => hRet = Null
           /\ (present /\ raw.t = "string" /\ ~HasDigit(raw.s)) => hRet = Null
           /\ (present /\ raw.t = "string") =>
                 /\ \A e \in KnownTexts : raw.s = e.text => hRet = e.value
                 /\ \A q \in DecimalPool : raw.s = NumberToString(q) => hRet = Num(q)

C2_Witness ==
    /\ Returned("getConditionValue")
    /\ hArg.key = "temp"
    /\ hArg.session.conditions.t = "object"
    /\ "temp" \in DOMAIN hArg.session.conditions.m
    /\ hArg.session.conditions.m["temp"] =
          Str(<<"n", "o", "t", "-", "a", "-", "n", "u", "m", "b", "e", "r">>)
    /\ hRet = Null

NonEmptyValues == hArg.t = "array" /\ Len(hArg.a) > 0

\* The rounding allowed to a number the code computes in double arithmetic.
Tolerance == Rat(1, Pow10(6))

Magnitude(x) == Dbl(FALSE, x.sig, x.exp)

\* x <= y, of two doubles
DLeq(x, y) == ~DLess(y, x)

\* The number x, read from the data or computed, is the real number q up to
\* the rounding of double arithmetic.
IsAbout(x, q) == DLess(Magnitude(DSub(DOf(x), DOfRat(q))), DOfRat(Tolerance))

\* The sum of a collection taken in the order given, from its last element.
RECURSIVE SumInOrder(_)
SumInOrder(a) ==
    IF a = <<>> THEN RInt(0)
    ELSE RAdd(SumInOrder(SubSeq(a, 1, Len(a) - 1)), a[Len(a)])

\* a with the elements at i and i + 1 exchanged.
SwapAt(a, i) ==
    [j \in 1..Len(a) |-> IF j = i THEN a[i + 1] ELSE IF j = i + 1 THEN a[i] ELSE a[j]]

\* C9: for a non-empty collection the mean is the sum of its elements
\* divided by their number, up to the rounding of double arithmetic, and
\* exchanging two neighbours of the input (so any reordering of it) leaves
\* the mean as it is, to the last digit.
C9_MeanIsSumOverCount ==
    (Returned("computeNumericStats") /\ NonEmptyValues) =>
        /\ hRet.t = "object"
        /\ IsAbout(hRet.mean, RDiv(SumInOrder(hArg.a), RInt(Len(hArg.a))))
        /\ \A i \in 1..(Len(hArg.a) - 1) :
              computeNumericStats(Arr(SwapAt(hArg.a, i))).mean = hRet.mean

C9_Witness ==
    /\ Returned("computeNumericStats")
    /\ hArg = Arr(<<RInt(4), Rat(-3, 2), RInt(2)>>)
    /\ hRet.mean = DOfRat(Rat(3, 2))

CountBelow(a, x) == Cardinality({i \in 1..Len(a) : RLess(a[i], x)})

CountUpTo(a, x) == Cardinality({i \in 1..Len(a) : RLeq(a[i], x)})

\* The k-th smallest element of a, by rank: fewer than k elements are below
\* it and at least k are below or equal to it.
KthSmallest(a, k) ==
    CHOOSE x \in {a[i] : i \in 1..Len(a)} : CountBelow(a, x) < k /\ k <= CountUpTo(a, x)

\* C10: for a non-empty collection in any order the median is the middle
\* element by rank for an odd count and the average of the two middle
\* elements by rank, up to the rounding of double arithmetic, for an even
\* count.
C10_MedianIsMiddleOfSorted ==
    (Returned("computeNumericStats") /\ NonEmptyValues) =>
        LET n == Len(hArg.a)
        IN /\ hRet.t = "object"
           /\ n % 2 = 1 => hRet.median = KthSmallest(hArg.a, (n + 1) \div 2)
           /\ n % 2 = 0 =>
                 IsAbout(hRet.median, RDiv(RAdd(KthSmallest(hArg.a, n \div 2),
                                                KthSmallest(hArg.a, n \div 2 + 1)),
                                           RInt(2)))

C10_Witness ==
    /\ Returned("computeNumericStats")
    /\ hArg = Arr(<<RInt(4), RInt(1), RInt(3), RInt(2)>>)
    /\ hRet.median = DOfRat(Rat(5, 2))

\* The number of positions of a that hold x.
Occurrences(a, x) == Cardinality({i \in 1..Len(a) : a[i] = x})

\* C11: for a non-empty collection in any order the mode is one of its
\* values, no value occurs more often than the mode, and every other value
\* that occurs as often as the mode is larger than it.
C11_ModeIsSmallestMostFrequent ==
    (Returned("computeNumericStats") /\ NonEmptyValues) =>
        /\ hRet.t = "object"
        /\ \E i \in 1..Len(hArg.a) : hArg.a[i] = hRet.mode
        /\ \A i \in 1..Len(hArg.a) :
              /\ Occurrences(hArg.a, hArg.a[i]) <= Occurrences(hArg.a, hRet.mode)
              /\ Occurrences(hArg.a, hArg.a[i]) = Occurrences(hArg.a, hRet.mode)
                    => RLeq(hRet.mode, hArg.a[i])

C11_Witness ==
    /\ Returned("computeNumericStats")
    /\ hArg = Arr(<<RInt(2), RInt(1), RInt(2), RInt(1)>>)
    /\ hRet.mode = RInt(1)

---------------------------------------------------------------------------
(* Claims about the Stats page, checked under Spec. *)

\* processSessions has run on statsSessions and its states are published.
Processed == statsPc = "done" /\ ~Truthy(error)

NumSessions == Len(statsSessions)

IsSuccessAt(i) == IsSuccessToken(statsSessions[i].result)

\* r is 100 * part / whole rounded to the nearest integer, a half going up.
IsRoundedPercent(r, part, whole) ==
    /\ r \in 0..100
    /\ 2 * r * whole <= 200 * part + whole
    /\ 200 * part + whole < 2 * (r + 1) * whole

RECURSIVE SumOfTotals(_)
SumOfTotals(entries) ==
    IF entries = <<>> THEN 0 ELSE Head(entries).total + SumOfTotals(Tail(entries))

\* The rows without row i.
Without(rows, i) == SubSeq(rows, 1, i - 1) \o SubSeq(rows, i + 1, Len(rows))

\* The label a session is to be counted under: its scent as text, or the
\* fixed label when the type or the scent is missing, null or empty.
ExpectedScent(s) ==
    IF s.type.t = "object" /\ "scent" \in DOMAIN s.type.m
    THEN LET scent == s.type.m["scent"]
         IN IF scent.t = "string" /\ scent.s # <<>> THEN scent.s
            ELSE IF scent = Num(RInt(7)) THEN <<"7">>
            ELSE UnknownScent
    ELSE UnknownScent

\* The total of the entry of a map (a sequence of entries) under a key, 0
\* when there is none.
TotalOfDog(entries, d) ==
    IF \E j \in 1..Len(entries) : entries[j].dogId = d
    THEN (entries[CHOOSE j \in 1..Len(entries) : entries[j].dogId = d]).total
    ELSE 0

TotalOfScent(entries, label) ==
    IF \E j \in 1..Len(entries) : entries[j].scent = label
    THEN (entries[CHOOSE j \in 1..Len(entries) : entries[j].scent = label]).total
    ELSE 0

DistributionsOf(rows, key) ==
    buildConditionDistributions(successSessionsOf(rows), failSessionsOf(rows), key,
                                DefaultBinCount)

\* C3: a session whose value for a condition key is absent or unparseable
\* adds nothing to that key's series, histogram bins and numeric summaries
\* (they are those of the list without it), while it is counted in the
\* global total and failure counts and in its dog's and its scent's totals.
C3_AbsentValuesAreLeftOutOfTheKeyOnly ==
    Processed =>
        /\ \A i \in 1..NumSessions :
              (\E k \in ConditionKeys : getConditionValue(statsSessions[i], k) = Null) =>
                  LET other == processSessions(Without(statsSessions, i))
                      s == statsSessions[i]
                  IN /\ \A k \in ConditionKeys :
                           getConditionValue(s, k) = Null =>
                               conditionSeries[k] = other.conditionSeries[k]
                     /\ globalKpis.totalSessions = other.globalKpis.totalSessions + 1
                     /\ globalKpis.totalFails =
                           other.globalKpis.totalFails + (IF IsSuccessAt(i) THEN 0 ELSE 1)
                     /\ TotalOfDog(perDogStats, s.dog_id) =
                           TotalOfDog(other.perDogStats, s.dog_id) + 1
                     /\ TotalOfScent(scentStats, ExpectedScent(s)) =
                           TotalOfScent(other.scentStats, ExpectedScent(s)) + 1
        /\ \A k \in ConditionKeys :
              (\E i \in 1..NumSessions : getConditionValue(statsSessions[i], k) = Null) =>
                  LET all == DistributionsOf(statsSessions, k)
                  IN \A i \in 1..NumSessions :
                        getConditionValue(statsSessions[i], k) = Null =>
                            all = DistributionsOf(Without(statsSessions, i), k)

C3_Witness ==
    /\ Processed
    /\ NumSessions = 3
    /\ \E i \in 1..NumSessions :
          /\ statsSessions[i].conditions.t = "object"
          /\ "temp" \in DOMAIN statsSessions[i].conditions.m
          /\ statsSessions[i].conditions.m["temp"] = Str(NotANumber)
    /\ Len(conditionSeries["temp"]) = 2
    /\ SumOfTotals(conditionSeries["temp"]) = 2
    /\ globalKpis.totalSessions = 3

\* C4: after processSessions on a non-empty list, totalSessions is the
\* length of the list, totalFails the number of sessions that are not
\* successes, successes and failures add up to totalSessions, totalDogs is
\* the number of distinct dog ids of the list and successRate is
\* 100 * successes / totalSessions rounded, an integer in 0..100.
C4_GlobalCounts ==
    (Processed /\ NumSessions > 0) =>
        LET succ == Cardinality({i \in 1..NumSessions : IsSuccessAt(i)})
            fails == Cardinality({i \in 1..NumSessions : ~IsSuccessAt(i)})
        IN /\ globalKpis.totalSessions = NumSessions
           /\ globalKpis.totalFails = fails
           /\ succ + globalKpis.totalFails = globalKpis.totalSessions
           /\ globalKpis.totalDogs =
                 Cardinality({statsSessions[i].dog_id : i \in 1..NumSessions})
           /\ IsRoundedPercent(globalKpis.successRate, succ, globalKpis.totalSessions)

C4_Witness ==
    /\ Processed
    /\ globalKpis.totalSessions = 40
    /\ globalKpis.totalFails = 17
    /\ globalKpis.totalDogs = 1
    /\ globalKpis.successRate = 57

\* C5: after processSessions there is exactly one per-dog entry for each
\* distinct dog id; its total is the number of that dog's sessions (at
\* least 1) and is success + fail, the totals add up to the number of
\* sessions, and successRate = 100 * success / total and
\* failRate = 100 * fail / total, which add up to 100, each up to the
\* rounding of double arithmetic.
C5_PerDogCounts ==
    Processed =>
        /\ Len(perDogStats) =
              Cardinality({statsSessions[i].dog_id : i \in 1..NumSessions})
        /\ \A i \in 1..NumSessions :
              Cardinality({j \in 1..Len(perDogStats) :
                              perDogStats[j].dogId = statsSessions[i].dog_id}) = 1
        /\ \A j \in 1..Len(perDogStats) :
              LET e == perDogStats[j]
                  own == {i \in 1..NumSessions : statsSessions[i].dog_id = e.dogId}
              IN /\ e.total = Cardinality(own)
                 /\ e.total >= 1
                 /\ e.success = Cardinality({i \in own : IsSuccessAt(i)})
                 /\ e.total = e.success + e.fail
                 /\ IsAbout(e.successRate, Rat(100 * e.success, e.total))
                 /\ IsAbout(e.failRate, Rat(100 * e.fail, e.total))
                 /\ IsAbout(DAdd(e.successRate, e.failRate), RInt(100))
        /\ SumOfTotals(perDogStats) = NumSessions
        /\ NumSessions > 0 => SumOfTotals(perDogStats) = globalKpis.totalSessions

C5_Witness ==
    /\ Processed
    /\ Len(perDogStats) = 2
    /\ perDogStats[1].total = 2
    /\ perDogStats[1].successRate = DOfInt(50)
    /\ perDogStats[1].failRate = DOfInt(50)
    /\ perDogStats[2].total = 1

\* The place of a dog's first session in the list.
FirstSeen(d) ==
    CHOOSE i \in 1..NumSessions :
        /\ statsSessions[i].dog_id = d
        /\ \A j \in 1..(i - 1) : statsSessions[j].dog_id # d

\* The key the mode selects, for the success table or the fail table.
SelectedKey(e, table) ==
    IF table = "success"
    THEN (IF dogTableMode = "absolute" THEN RInt(e.success) ELSE e.successRate)
    ELSE (IF dogTableMode = "absolute" THEN RInt(e.fail) ELSE e.failRate)

IsRankingOf(ranking, table) ==
    /\ Len(ranking) = Len(perDogStats)
    /\ \A j \in 1..Len(perDogStats) :
          Cardinality({r \in 1..Len(ranking) : ranking[r] = perDogStats[j]}) = 1
    /\ \A r \in 1..(Len(ranking) - 1) :
          ~NumLess(SelectedKey(ranking[r], table), SelectedKey(ranking[r + 1], table))
    /\ \A r1 \in 1..Len(ranking) : \A r2 \in (r1 + 1)..Len(ranking) :
          SelectedKey(ranking[r1], table) = SelectedKey(ranking[r2], table)
             => FirstSeen(ranking[r1].dogId) < FirstSeen(ranking[r2].dogId)

\* C6: the success ranking and the fail ranking each hold every per-dog
\* entry exactly once, in non-increasing order of the key the mode selects,
\* and two dogs with equal keys stand in the order of their first sessions.
C6_RankingsAreStableDescending ==
    /\ IsRankingOf(successRanking, "success")
    /\ IsRankingOf(failRanking, "fail")

C6_Witness ==
    /\ Processed
    /\ dogTableMode = "rate"
    /\ Len(perDogStats) = 3
    /\ successRanking # perDogStats
    /\ successRanking[1].successRate = successRanking[2].successRate
    /\ successRanking[1].dogId = perDogStats[2].dogId
    /\ successRanking[2].dogId = perDogStats[3].dogId

\* C7: after processSessions there is exactly one scent entry per distinct
\* label; a session whose type or scent is missing is counted under the one
\* fixed label; each entry has total = success + fail = the sessions of its
\* label, the totals add up to the number of sessions, and successRate is
\* 100 * success / total rounded.
C7_ScentCounts ==
    Processed =>
        /\ Len(scentStats) =
              Cardinality({ExpectedScent(statsSessions[i]) : i \in 1..NumSessions})
        /\ \A i \in 1..NumSessions :
              Cardinality({j \in 1..Len(scentStats) :
                              scentStats[j].scent = ExpectedScent(statsSessions[i])}) = 1
        /\ \A j \in 1..Len(scentStats) :
              LET e == scentStats[j]
                  own == {i \in 1..NumSessions : ExpectedScent(statsSessions[i]) = e.scent}
              IN /\ e.total = Cardinality(own)
                 /\ e.success = Cardinality({i \in own : IsSuccessAt(i)})
                 /\ e.total = e.success + e.fail
                 /\ IsRoundedPercent(e.successRate, e.success, e.total)
        /\ SumOfTotals(scentStats) = NumSessions

C7_Witness ==
    /\ Processed
    /\ NumSessions = 40
    /\ Len(scentStats) = 1
    /\ scentStats[1].total = 40
    /\ scentStats[1].success = 23
    /\ scentStats[1].successRate = 57

\* The sessions whose value for key k is the number q.
WithValue(k, q) ==
    {i \in 1..NumSessions : getConditionValue(statsSessions[i], k) = Num(q)}

\* C8: for each of temp, hum, press and wind the series has exactly one
\* group per distinct present numeric value (by exact value), is strictly
\* ascending by value, and each group has total = success + fail = the
\* sessions with that value and successRate = 100 * success / total rounded.
C8_ConditionSeriesGroupByExactValue ==
    Processed =>
        \A k \in ConditionKeys :
            LET series == conditionSeries[k]
                present == {i \in 1..NumSessions :
                               getConditionValue(statsSessions[i], k) # Null}
            IN /\ {series[j].value : j \in 1..Len(series)} =
                     {getConditionValue(statsSessions[i], k).q : i \in present}
               /\ \A j \in 1..(Len(series) - 1) :
                     RLess(series[j].value, series[j + 1].value)
               /\ \A j \in 1..Len(series) :
                     /\ series[j].total = Cardinality(WithValue(k, series[j].value))
                     /\ series[j].total >= 1
                     /\ series[j].success =
                           Cardinality({i \in WithValue(k, series[j].value) : IsSuccessAt(i)})
                     /\ series[j].total = series[j].success + series[j].fail
                     /\ IsRoundedPercent(series[j].successRate, series[j].success,
                                         series[j].total)

C8_Witness ==
    /\ Processed
    /\ NumSessions = 40
    /\ Len(conditionSeries["temp"]) = 1
    /\ conditionSeries["temp"][1].value = RInt(20)
    /\ conditionSeries["temp"][1].total = 40
    /\ conditionSeries["temp"][1].success = 23
    /\ conditionSeries["temp"][1].successRate = 57


---------------------------------------------------------------------------
(* Claims about buildConditionDistributions, checked under SpecDistributions. *)

Distributed == Returned("buildConditionDistributions")

\* The positions of a cohort whose session holds a value for the key.
PresentIn(cohort) ==
    {i \in 1..Len(cohort) : getConditionValue(cohort[i], hArg.key) # Null}

ValueAt(cohort, i) == getConditionValue(cohort[i], hArg.key).q

\* The present values of the success cohort, of the failure cohort, of both.
SuccessValues == {ValueAt(hArg.successSessions, i) : i \in PresentIn(hArg.successSessions)}

FailValues == {ValueAt(hArg.failSessions, i) : i \in PresentIn(hArg.failSessions)}

AllValues == SuccessValues \cup FailValues

Least(S) == CHOOSE m \in S : \A x \in S : RLeq(m, x)

Greatest(S) == CHOOSE m \in S : \A x \in S : RLeq(x, m)

\* The tenth read is a nearest to the number x: to the decimal x itself
\* for a number read from the data, up to the rounding of double arithmetic
\* for a computed one.
IsTenthOf(read, x) ==
    IF "num" \in DOMAIN x
    THEN /\ RLeq(RMul(RInt(20), RSub(read, x)), RInt(1))
         /\ RLeq(RMul(RInt(20), RSub(x, read)), RInt(1))
    ELSE DLess(Magnitude(DSub(x, DOfRat(read))), DOfRat(RAdd(Rat(1, 20), Tolerance)))

\* text is a decimal numeral with one digit after the point that reads as
\* the tenth nearest to x.
ReadsAsTenthOf(text, x) ==
    /\ Len(text) >= 3
    /\ text[Len(text) - 1] = "."
    /\ IsDigit(text[Len(text)])
    /\ \E read \in {parseFloat(text)} : read.t = "number" /\ IsTenthOf(read.q, x)

\* C14: when all present values of the two cohorts together are one value,
\* each cohort gets exactly one bin, labelled with that value to one
\* decimal place; the success bin counts the present success values and the
\* failure bin the present failure values, whatever bin count is requested.
C14_SingleValueGivesOneBin ==
    (Distributed /\ Cardinality(AllValues) = 1) =>
        /\ Len(hRet.binsSuccess) = 1
        /\ Len(hRet.binsFail) = 1
        /\ ReadsAsTenthOf(hRet.binsSuccess[1].range, Least(AllValues))
        /\ hRet.binsFail[1].range = hRet.binsSuccess[1].range
        /\ hRet.binsSuccess[1].count = Cardinality(PresentIn(hArg.successSessions))
        /\ hRet.binsFail[1].count = Cardinality(PresentIn(hArg.failSessions))

C14_Witness ==
    /\ Distributed
    /\ hArg.binCount = DefaultBinCount
    /\ Len(hArg.successSessions) = 2 /\ Len(hArg.failSessions) = 2
    /\ SuccessValues = {RInt(5)} /\ FailValues = {RInt(5)}
    /\ Cardinality(PresentIn(hArg.successSessions)) = 2
    /\ Cardinality(PresentIn(hArg.failSessions)) = 2
    /\ hRet.binsSuccess = <<[range |-> <<"5", ".", "0">>, count |-> 2]>>
    /\ hRet.binsFail = <<[range |-> <<"5", ".", "0">>, count |-> 2]>>

\* The call returned and the present values differ: min < max.
Ranged == Distributed /\ Cardinality(AllValues) > 1

\* The present values of a cohort, by position.
Present(cohort) == [i \in PresentIn(cohort) |-> ValueAt(cohort, i)]

\* The number of values of a cohort (as Present gives them) in Chosen.
CountIn(values, Chosen) == Cardinality({i \in DOMAIN values : values[i] \in Chosen})

\* floor((v - min) / width) clamped into 0..binCount-1.
ClaimedIndex(v, min, width, binCount) ==
    LET f == RFloor(RDiv(RSub(v, min), width))
    IN IF f < 0 THEN 0 ELSE IF f > binCount - 1 THEN binCount - 1 ELSE f

\* C15: when min < max, bin i of each cohort counts exactly the cohort's
\* present values v with floor((v - min) / width) clamped into
\* 0..binCount-1 equal to i, where width = (max - min) / binCount; that
\* index is binCount-1 for the maximum and i for a value on the boundary
\* min + i * width between bins i-1 and i, and every present value is
\* counted in one of the binCount bins.
C15_EveryValueInItsClampedBin ==
    Ranged =>
        \E n \in {hArg.binCount} : \E all \in {AllValues} :
        \E min \in {Least(all)} : \E max \in {Greatest(all)} :
        \E width \in {RDiv(RSub(max, min), RInt(n))} :
        \E index \in {[v \in all |-> ClaimedIndex(v, min, width, n)]} :
        \E success \in {Present(hArg.successSessions)} :
        \E fail \in {Present(hArg.failSessions)} :
            /\ Len(hRet.binsSuccess) = n
            /\ Len(hRet.binsFail) = n
            /\ \A i \in 0..(n - 1) :
                  /\ hRet.binsSuccess[i + 1].count = CountIn(success, {v \in all : index[v] = i})
                  /\ hRet.binsFail[i + 1].count = CountIn(fail, {v \in all : index[v] = i})
            /\ index[max] = n - 1
            /\ \A v \in all : \A i \in 1..(n - 1) :
                  v = RAdd(min, RMul(RInt(i), width)) => index[v] = i

\* Success value 0 and failure values 0.7 and 2.1 in three bins: 0.7 is on
\* the boundary between bins 0 and 1 and is counted in bin 0, the lower.
C15_Witness ==
    /\ Distributed
    /\ hArg.binCount = 3
    /\ hArg.successSessions = <<DetailRow(Str(Success), Temp(Num(RInt(0))))>>
    /\ hArg.failSessions = <<DetailRow(Str(Fail), Temp(Num(Rat(7, 10)))),
                             DetailRow(Str(Fail), Temp(Num(Rat(21, 10))))>>
    /\ hRet.binsFail[1] = [range |-> <<"0", ".", "0", EnDash, "0", ".", "7">>, count |-> 1]
    /\ hRet.binsFail[2] = [range |-> <<"0", ".", "7", EnDash, "1", ".", "4">>, count |-> 0]
    /\ hRet.binsFail[3] = [range |-> <<"1", ".", "4", EnDash, "2", ".", "1">>, count |-> 1]

\* v lies in [start, end) of bin b, or in [start, end] when b is the last bin.
InBin(v, b, isLast) ==
    /\ DLeq(DOf(b.start), DOf(v))
    /\ IF isLast THEN DLeq(DOf(v), DOf(b.end)) ELSE DLess(DOf(v), DOf(b.end))

\* The position of the dash in a range label, 0 if it has none.
DashAt(label) ==
    IF \E k \in 1..Len(label) : label[k] = EnDash
    THEN CHOOSE k \in 1..Len(label) : label[k] = EnDash
    ELSE 0

\* label names the bin b: its start alone for a single bin, else its start
\* and end, each to one decimal place.
Names(label, b, binCount) ==
    IF binCount = 1 THEN ReadsAsTenthOf(label, b.start)
    ELSE /\ DashAt(label) > 0
         /\ ReadsAsTenthOf(SubSeq(label, 1, DashAt(label) - 1), b.start)
         /\ ReadsAsTenthOf(SubSeq(label, DashAt(label) + 1, Len(label)), b.end)

\* C16: when min < max the bins built for a bin count of at least 1 are
\* binCount bins of width (max - min) / binCount, up to the rounding of
\* double arithmetic: the first starts at min, each ends where the next
\* starts, the last ends at max; the returned bins
\* are labelled with them, and bin i counts exactly the present values in
\* [start_i, end_i), the last bin those in [start_i, max].
C16_BinsTileTheRange ==
    Ranged =>
        \E n \in {hArg.binCount} : \E all \in {AllValues} :
        \E min \in {Least(all)} : \E max \in {Greatest(all)} :
        \E bins \in {MakeBins(min, max, n, StepOf(min, max, n))} :
        \E success \in {Present(hArg.successSessions)} :
        \E fail \in {Present(hArg.failSessions)} :
            /\ Len(bins) = n /\ Len(hRet.binsSuccess) = n /\ Len(hRet.binsFail) = n
            /\ bins[1].start = DOf(min)
            /\ bins[n].end = max
            /\ \A i \in 1..(n - 1) : bins[i].end = bins[i + 1].start
            /\ \A i \in 1..n :
                  /\ IsAbout(DSub(DOf(bins[i].end), bins[i].start),
                             RDiv(RSub(max, min), RInt(n)))
                  /\ Names(hRet.binsSuccess[i].range, bins[i], n)
                  /\ Names(hRet.binsFail[i].range, bins[i], n)
                  /\ hRet.binsSuccess[i].count =
                        CountIn(success, {v \in all : InBin(v, bins[i], i = n)})
                  /\ hRet.binsFail[i].count =
                        CountIn(fail, {v \in all : InBin(v, bins[i], i = n)})

\* Values 0, 2.5 and 10 in three bins of width 10/3: 2.5 is counted in the
\* first bin and 10 in the last, whose label ends at the maximum.
C16_Witness ==
    /\ Distributed
    /\ hArg.binCount = 3
    /\ hArg.successSessions = <<DetailRow(Str(Success), Temp(Num(RInt(0)))),
                                DetailRow(Str(Success), Temp(Str(<<"2", ".", "5">>)))>>
    /\ hArg.failSessions = <<DetailRow(Str(Fail), Temp(Num(RInt(10))))>>
    /\ hRet.binsSuccess[1] = [range |-> <<"0", ".", "0", EnDash, "3", ".", "3">>, count |-> 2]
    /\ hRet.binsSuccess[2] = [range |-> <<"3", ".", "3", EnDash, "6", ".", "7">>, count |-> 0]
    /\ hRet.binsFail[3] = [range |-> <<"6", ".", "7", EnDash, "1", "0", ".", "0">>, count |-> 1]

\* The part of a range label before its dash (all of it without one), and
\* the part after its dash.
LabelStart(label) ==
    IF DashAt(label) > 0 THEN SubSeq(label, 1, DashAt(label) - 1) ELSE label

LabelEnd(label) == SubSeq(label, DashAt(label) + 1, Len(label))

\* C17: the bins of the success cohort and of the failure cohort are equally
\* many and carry the same range label at each index; the first label
\* starts at the minimum and the last label ends at the maximum of the
\* present values of both cohorts together, also when one cohort has none.
C17_CohortsShareTheBins ==
    Distributed =>
        /\ Len(hRet.binsSuccess) = Len(hRet.binsFail)
        /\ \A i \in 1..Len(hRet.binsSuccess) :
              hRet.binsSuccess[i].range = hRet.binsFail[i].range
        /\ AllValues # {} =>
              /\ Len(hRet.binsFail) >= 1
              /\ \E first \in {hRet.binsFail[1].range} :
                 \E last \in {hRet.binsFail[Len(hRet.binsFail)].range} :
                  /\ ReadsAsTenthOf(LabelStart(first), Least(AllValues))
                  /\ DashAt(last) > 0 => ReadsAsTenthOf(LabelEnd(last), Greatest(AllValues))
                  /\ (DashAt(last) = 0 /\ hArg.binCount > 1) =>
                        Least(AllValues) = Greatest(AllValues)

\* No success value, failure values 0 and 10: the success cohort has the
\* two bins of the failure cohort, with nothing counted in them.
C17_Witness ==
    /\ Distributed
    /\ hArg.binCount = 2
    /\ SuccessValues = {}
    /\ Len(hArg.successSessions) = 1
    /\ hArg.failSessions = <<DetailRow(Str(Fail), Temp(Num(RInt(0)))),
                             DetailRow(Str(Fail), Temp(Num(RInt(10))))>>
    /\ hRet.binsSuccess = <<[range |-> <<"0", ".", "0", EnDash, "5", ".", "0">>, count |-> 0],
                            [range |-> <<"5", ".", "0", EnDash, "1", "0", ".", "0">>, count |-> 0]>>
    /\ hRet.binsFail = <<[range |-> <<"0", ".", "0", EnDash, "5", ".", "0">>, count |-> 1],
                         [range |-> <<"5", ".", "0", EnDash, "1", "0", ".", "0">>, count |-> 1]>>

---------------------------------------------------------------------------
(* Claims about the helpers and their callers, checked under SpecApp. *)

\* A summary that shows a mean, a median and a mode.
ShowsNumbers(summary) == "Media" \in DOMAIN summary

\* What the detail page shows under the histogram of a cohort, if anything.
DetailShowsNumbers(cohort) ==
    /\ cohort \in DOMAIN DistributionsSection
    /\ ShowsNumbers(DistributionsSection[cohort].summary)

\* What the Stats page shows under a ranking, if anything.
StatsShowsNumbers(ranking) ==
    /\ ranking \in DOMAIN StatsRankingBlock
    /\ ShowsNumbers(StatsRankingBlock[ranking].summary)

\* C12: computeNumericStats returns null for an empty or missing
\* collection, and on both pages the summary of an empty cohort reaches
\* StatsSummary only as null: no mean, median or mode is shown for it.
C12_EmptySummaryIsNullAndNeverShown ==
    /\ (Returned("computeNumericStats") /\ ~NonEmptyValues) => hRet = Null
    /\ statsPc # "unmounted" =>
          /\ Len(successValuesForStats.a) = 0 =>
                successStatsGlobal = Null /\ ~StatsShowsNumbers("success")
          /\ Len(failValuesForStats.a) = 0 =>
                failStatsGlobal = Null /\ ~StatsShowsNumbers("fail")
    /\ detailPc # "unmounted" =>
          /\ PresentValues(successSessions, selectedCondition) = <<>> =>
                distributions.statsSuccess = Null /\ ~DetailShowsNumbers("success")
          /\ PresentValues(failSessions, selectedCondition) = <<>> =>
                distributions.statsFail = Null /\ ~DetailShowsNumbers("fail")

\* A dog with one successful session at temperature 0 and no failure: the
\* failure histogram's summary is the message, next to a success summary.
C12_Witness ==
    /\ detailPc = "done"
    /\ detailSessions = <<DetailRow(Str(Success), Temp(Num(RInt(0))))>>
    /\ selectedCondition = "temp"
    /\ DistributionsSection.fail.summary = [p |-> NoStatsMessage]
    /\ DistributionsSection.success.summary.Media = <<"0", ".", "0", "0">>

\* The dog's sessions are loaded and the page shows its sections.
DetailLoaded == detailPc = "done" /\ ~Truthy(detailError) /\ DetailRendered

\* C13: an empty session list gives an unavailable or empty result at every
\* stage and no statistic of value zero: a null numeric summary, no
\* histogram bins, no global counts or success rate on the Stats page, and
\* no success or failure rate on the detail page.
C13_EmptyListGivesNoStatistics ==
    /\ (Returned("computeNumericStats") /\ IsEmptyArray(hArg)) => hRet = Null
    /\ (Processed /\ Len(statsSessions) = 0) =>
          /\ globalKpis = Null
          /\ perDogStats = <<>>
          /\ scentStats = <<>>
    /\ (DetailLoaded /\ totalSessions = 0) =>
          /\ distributions.binsSuccess = <<>> /\ distributions.binsFail = <<>>
          /\ distributions.statsSuccess = Null /\ distributions.statsFail = Null
          /\ successRate = Null
          /\ failRate = Null

\* The Stats page after a query that answered no rows.
C13_Witness ==
    /\ Processed
    /\ statsSessions = <<>>
    /\ globalKpis = [totalSessions |-> 0, totalDogs |-> 0, successRate |-> 0,
                     totalFails |-> 0]
    /\ StatsRendered

\* Some bin of the two sequences counts a value.
CountsSomething(binsSuccess, binsFail) ==
    \/ \E i \in 1..Len(binsSuccess) : binsSuccess[i].count > 0
    \/ \E i \in 1..Len(binsFail) : binsFail[i].count > 0

NoDistribution ==
    [binsSuccess |-> <<>>, binsFail |-> <<>>, statsSuccess |-> Null, statsFail |-> Null]

\* C18: when no session of either cohort holds a value for the condition,
\* buildConditionDistributions returns no bins and null summaries, and the
\* detail page shows its no-data message in place of the charts; whenever
\* bins are returned, some bin counts a value.
C18_NoValuesGiveNoBins ==
    /\ Distributed =>
          /\ AllValues = {} => hRet = NoDistribution
          /\ hRet # NoDistribution => CountsSomething(hRet.binsSuccess, hRet.binsFail)
    /\ detailPc # "unmounted" =>
          /\ (/\ PresentValues(successSessions, selectedCondition) = <<>>
              /\ PresentValues(failSessions, selectedCondition) = <<>>) =>
                /\ distributions = NoDistribution
                /\ DistributionsSection = [p |-> NoNumericDataMessage]
          /\ distributions # NoDistribution =>
                /\ CountsSomething(distributions.binsSuccess, distributions.binsFail)
                /\ DistributionsSection # [p |-> NoNumericDataMessage]

\* A dog with one session that holds a temperature, with humidity selected.
C18_Witness ==
    /\ DetailLoaded
    /\ detailSessions = <<DetailRow(Str(Success), Temp(Num(RInt(0))))>>
    /\ selectedCondition = "hum"
    /\ distributions = NoDistribution
    /\ DistributionsSection = [p |-> NoNumericDataMessage]

\* The list handed to processSessions: data || [] of the answered query.
SessionsOfData(data) == IF Truthy(data) THEN data.a ELSE <<>>

\* What a call on the heap returned agrees with what the function computes:
\* the summary, the distributions, the four published states and the
\* rankings read from the heap after the call are those of
\* computeNumericStats, buildConditionDistributions, processSessions and
\* RankBy for what the arguments held before it.
OnHeapAsComputed ==
    hDone =>
        CASE hFn = "computeNumericStats" ->
                hRet.value = computeNumericStats(
                                 IF hArg.values.t = "ref"
                                 THEN Arr(Cell(hArg.heap, hArg.values))
                                 ELSE hArg.values)
          [] hFn = "buildConditionDistributions" ->
                hRet.value = buildConditionDistributions(
                                 Elements(hArg.heap, hArg.successSessions),
                                 Elements(hArg.heap, hArg.failSessions),
                                 hArg.key, hArg.binCount)
          [] hFn = "processSessions" ->
                hRet.value = processSessions(Elements(hArg.heap, hArg.sessions))
          [] OTHER ->
                /\ hRet.value.successRanking =
                      RankBy(Elements(hArg.heap, hArg.perDogStats),
                             IF hArg.mode = "absolute" THEN "success" ELSE "successRate")
                /\ hRet.value.failRanking =
                      RankBy(Elements(hArg.heap, hArg.perDogStats),
                             IF hArg.mode = "absolute" THEN "fail" ELSE "failRate")

\* C20: a call leaves its inputs as they were.  Every cell that was on the
\* heap when computeNumericStats, buildConditionDistributions,
\* processSessions or the rankings of a render were called holds after the
\* call what it held before it: the array handed in has the same elements
\* in the same order, and every session record and per-dog entry it refers
\* to has the same field values.  What the call sorts, counts in and sets
\* are cells it made itself.
C20_InputsAreLeftUnchanged ==
    hDone =>
        /\ Len(hRet.heap) >= Len(hArg.heap)
        /\ \A r \in 1..Len(hArg.heap) : hRet.heap[r] = hArg.heap[r]

\* computeNumericStats has returned for [3, 1, 2]: the array is still in
\* that order, the copy the call made of it is sorted, and the summary
\* holds the median 2 of the copy.
C20_Witness ==
    /\ Returned("computeNumericStats")
    /\ hArg.heap = <<(<<RInt(3), RInt(1), RInt(2)>>)>>
    /\ hArg.values = At(1)
    /\ hRet.heap[1] = <<RInt(3), RInt(1), RInt(2)>>
    /\ hRet.heap[2] = <<RInt(1), RInt(2), RInt(3)>>
    /\ hRet.value.median = RInt(2)
    /\ hRet.value.mode = RInt(1)

---------------------------------------------------------------------------
(* The conservation of counts, checked under SpecDistributions. *)

\* The sum of the counts of a cohort's bins.
RECURSIVE SumOfCounts(_)
SumOfCounts(bins) ==
    IF bins = <<>> THEN 0 ELSE Head(bins).count + SumOfCounts(Tail(bins))

\* C30: the counts of the success bins add up to the number of success
\* sessions that hold a value for the key and the counts of the failure
\* bins to the number of failure sessions that do, so that each present
\* value is counted once, in one bin of its own cohort, and a session
\* without a value in none.
C30_CountsAreConserved ==
    Distributed =>
        /\ SumOfCounts(hRet.binsSuccess) = Cardinality(PresentIn(hArg.successSessions))
        /\ SumOfCounts(hRet.binsFail) = Cardinality(PresentIn(hArg.failSessions))
        /\ SumOfCounts(hRet.binsSuccess) + SumOfCounts(hRet.binsFail) =
              Cardinality(PresentIn(hArg.successSessions))
                 + Cardinality(PresentIn(hArg.failSessions))

\* Two success sessions of which one holds no value, two failure sessions
\* holding 5 and "2.5", three bins: one success count and two failure
\* counts, in different bins.
C30_Witness ==
    /\ Distributed
    /\ hArg.binCount = 3
    /\ hArg.successSessions = <<DetailRow(Str(Success), Temp(Num(RInt(10)))),
                                DetailRow(Str(Success), Temp(Null))>>
    /\ hArg.failSessions = <<DetailRow(Str(Fail), Temp(Num(RInt(5)))),
                             DetailRow(Str(Fail), Temp(Str(<<"2", ".", "5">>)))>>
    /\ [i \in 1..3 |-> hRet.binsSuccess[i].count] = <<0, 0, 1>>
    /\ [i \in 1..3 |-> hRet.binsFail[i].count] = <<1, 1, 0>>

---------------------------------------------------------------------------
(* The aggregators on reordered lists, checked under SpecPermutations. *)

\* Two listings hold the same entries, in whatever order.
SameEntries(a, b) ==
    /\ Len(a) = Len(b)
    /\ {a[i] : i \in 1..Len(a)} = {b[i] : i \in 1..Len(b)}

\* C21: for a session list and any reordering of it, processSessions gives
\* the same global counts and the same per-condition series, and per-dog
\* and per-scent listings that hold the same entries and differ in their
\* order at most; the detail page's binning gives the same bins with the
\* same counts and the same summaries for both cohorts.
C21_ReorderingChangesTheListingOrderOnly ==
    /\ Returned("processSessions") =>
          /\ hRet.first.globalKpis = hRet.second.globalKpis
          /\ hRet.first.conditionSeries = hRet.second.conditionSeries
          /\ SameEntries(hRet.first.perDogStats, hRet.second.perDogStats)
          /\ SameEntries(hRet.first.scentStats, hRet.second.scentStats)
    /\ Returned("distributions") => hRet.first = hRet.second

\* A success of dog d1 with its embedded dogs row and a failure of d1
\* without it, in both orders: the one per-dog entry has the same counts
\* and another name.
C21_Witness ==
    /\ Returned("processSessions")
    /\ Len(hArg.first) = 2
    /\ hArg.first[1].dogs = Rex /\ hArg.first[2].dogs = Null
    /\ hArg.second = <<hArg.first[2], hArg.first[1]>>
    /\ Len(hRet.first.perDogStats) = 1 /\ Len(hRet.second.perDogStats) = 1
    /\ hRet.first.perDogStats[1].total = 2 /\ hRet.second.perDogStats[1].total = 2
    /\ hRet.first.perDogStats[1].name = Str(<<"R", "e", "x">>)
    /\ hRet.second.perDogStats[1].name = Str(UnnamedDog)

---------------------------------------------------------------------------
(* RecordDetail under changes of the route id, checked under SpecDetailRoutes. *)

\* No fetch of the page is in flight.
DetailSettled == detailPc = "done" /\ detailEarlier = EmptyBag

\* C27: once every fetch of the page has completed, a dog held in state is
\* the dog of the current route id (and with it the sessions stored in the
\* same step): neither a late answer for an earlier id nor a failed or
\* empty lookup for the current id leaves another id's dog on display.
C27_SettledStateIsOfTheCurrentId ==
    (DetailSettled /\ DetailRendered) => detailDog.m.id = Str(detailId)

\* The route went from d1 to d2; the fetch for d2 completed, then the late
\* fetch for d1: the page for d2 shows Rex, the dog of d1, without an error.
C27_Witness ==
    /\ supabase
    /\ DetailSettled
    /\ detailId = <<"d", "2">>
    /\ detailDog = Rex
    /\ detailError = Null
    /\ ~detailLoading

---------------------------------------------------------------------------
(* The fetches of the pages, checked under SpecPages. *)

\* What processSessions publishes on the Stats page.
Published ==
    [globalKpis |-> globalKpis, perDogStats |-> perDogStats,
     scentStats |-> scentStats, conditionSeries |-> conditionSeries]

\* The Stats page's state before processSessions is called.
NothingPublished ==
    /\ globalKpis = Null
    /\ perDogStats = <<>>
    /\ scentStats = <<>>
    /\ conditionSeries = [k \in ConditionKeys |-> <<>>]

\* The fetches of RecordDetail that wait for their sessions query.
AwaitingSessions ==
    {f \in BagToSet(detailEarlier) \cup DetailInFlight : f.pc = "awaitingSessions"}

\* The number of RecordDetail's fetches in flight.
InFlightCount == BagCardinality(detailEarlier) + Cardinality(DetailInFlight)

\* C24: on the Stats page nothing is published while the sessions query is
\* pending or after it failed; what is published is processSessions of the
\* whole answered list, and it changes only in the step in which the query
\* answers without error, once per fetch.  With a backend, RecordDetail
\* changes dog or sessions only in a step in which a sessions query answers
\* without error, for a fetch whose dogs query had answered, and it then
\* stores that fetch's dog together with all the answered sessions; a
\* stored dog is always held with the sessions stored in the same step.
C24_OnlyCompletedFetchesAreAggregated ==
    /\ [](/\ (statsPc \in {"mounted", "awaiting"} \/ statsQueryError # Null)
                => NothingPublished
          /\ (supabase /\ statsPc = "done" /\ statsQueryError = Null)
                => \E next \in {processSessions(SessionsOfData(statsData))} :
                      /\ globalKpis = next.globalKpis
                      /\ perDogStats = next.perDogStats
                      /\ scentStats = next.scentStats
                      /\ conditionSeries = next.conditionSeries
          /\ (supabase /\ DetailRendered)
                => detailSessions = SessionsOfData(detailSessData))
    /\ [][/\ Published' # Published =>
                /\ statsPc = "awaiting" /\ statsPc' = "done"
                /\ statsQueryError' = Null
          /\ (supabase /\ (detailDog' # detailDog \/ detailSessions' # detailSessions)) =>
                /\ detailQueryError' = detailQueryError
                /\ detailSessions' = SessionsOfData(detailSessData')
                /\ InFlightCount' = InFlightCount - 1
                /\ \E f \in AwaitingSessions : detailDog' = f.dogData]_vars

\* Stats has published the statistics of an answered list of three
\* sessions, and RecordDetail the dog of d1 with two answered sessions,
\* after one fetch each.
C24_Witness ==
    \/ /\ statsPc = "done"
       /\ statsQueryError = Null
       /\ Len(statsSessions) = 3
       /\ globalKpis # Null
       /\ globalKpis.totalSessions = 3
    \/ /\ supabase
       /\ detailPc = "done"
       /\ detailEarlier = EmptyBag
       /\ detailDog = Rex
       /\ detailError = Null

\* The error message a page shows for the error its query answered with.
MessageOf(err, default) == Or(err.message, Str(default))

\* C25: a Stats or Records page whose query answered an error is done,
\* shows that error's message (or its default message), is no longer
\* loading, holds no statistics or rows, and starts no other fetch.  A step
\* in which a query of RecordDetail answers an error sets the message and
\* loading = false, leaves dog and sessions as they were and starts no
\* fetch: RecordDetail starts a fetch only in the run of the effect of a
\* commit, one fetch a run, and after the mount an effect is left to run
\* only by a render with another route id.
C25_AFailedFetchShowsItsErrorOnly ==
    /\ [](/\ statsQueryError # Null =>
                /\ statsPc = "done"
                /\ error = MessageOf(statsQueryError, LoadErrorMessage)
                /\ Truthy(error)
                /\ ~loading
                /\ NothingPublished
          /\ recQueryError # Null =>
                /\ recPc = "done"
                /\ recError = MessageOf(recQueryError, RecordsErrorMessage)
                /\ Truthy(recError)
                /\ ~recLoading
                /\ recDogs = <<>>)
    /\ [][/\ statsPc = "done" => statsPc' = "done"
          /\ recPc = "done" => recPc' = "done"
          /\ InFlightCount' > InFlightCount =>
                /\ detailPc = "mounted" /\ detailPc' = "awaitingDog"
                /\ InFlightCount' = InFlightCount + 1
                /\ detailId' = detailId
          /\ (detailPc # "mounted" /\ detailPc' = "mounted") => detailId' # detailId
          /\ detailQueryError' # detailQueryError =>
                /\ detailError' = MessageOf(detailQueryError', DetailErrorMessage)
                /\ Truthy(detailError')
                /\ ~detailLoading'
                /\ detailDog' = detailDog
                /\ detailSessions' = detailSessions
                /\ detailId' = detailId
                /\ InFlightCount' = InFlightCount - 1]_vars

\* The sessions query of RecordDetail has answered an error after its dogs
\* query had answered Rex: the message is shown and no dog is stored.
C25_Witness ==
    /\ supabase
    /\ detailPc = "done"
    /\ detailDogData = Rex
    /\ detailQueryError = [message |-> Undefined]
    /\ detailError = Str(DetailErrorMessage)
    /\ ~detailLoading
    /\ detailDog = Null
    /\ detailSessions = <<>>

GuardedRoutes == {"/home", "/records", "/records/:id", "/stats"}

GuardedPages == {Page("Home"), Page("Records"), Page("RecordDetail"), Page("Stats")}

\* C22: a page behind RequireAuth (Home, Records, RecordDetail, Stats) is
\* rendered only while the auth context is not loading and holds a user;
\* at its route, while the context is loading only the notice "Cargando
\* sesión..." is rendered, and once loading is over without a user the
\* sign-in prompt is rendered in place of the page.
C22_GuardedPagesNeedALoadedUser ==
    /\ mounted \in GuardedPages => ~authLoading /\ authUser \in Users
    /\ path.route \in GuardedRoutes /\ authLoading => mounted = SessionLoadingNotice
    /\ path.route \in GuardedRoutes /\ ~authLoading /\ authUser = Null
          => mounted = SignInPrompt
    /\ path.route \in GuardedRoutes /\ ~authLoading /\ authUser \in Users
          => mounted \in GuardedPages

C22_Witness ==
    /\ mounted = Page("Stats")
    /\ authUser = User(U2)
    /\ ~authLoading

AdminGuardPasses ==
    /\ ~authLoading
    /\ authUser \in Users
    /\ Get(authProfile, "role") = Str(Admin)

\* C23: the form of /dogs/new is rendered, and an insert of a dog is
\* submitted, only while the auth context is not loading, holds a user and
\* holds a profile whose role is "admin"; a signed-in user whose loaded
\* profile is missing or has another role gets the notice "Acceso
\* restringido" at that route.
C23_OnlyAdminsReachTheForm ==
    /\ [](mounted = Page("NewDog") => AdminGuardPasses)
    /\ [](path.route = "/dogs/new" /\ ~authLoading /\ authUser \in Users
             /\ Get(authProfile, "role") # Str(Admin)
          => mounted = RestrictedNotice)
    /\ [][ndPending' > ndPending => mounted = Page("NewDog") /\ AdminGuardPasses]_vars

C23_Witness ==
    /\ mounted = Page("NewDog")
    /\ ndPending > 0
    /\ authUser = User(U1)
    /\ Get(authProfile, "role") = Str(Admin)

\* C26: whenever the auth context holds a profile, it holds a user and the
\* profile is the row of that user; with no user there is no profile.
C26_ProfileIsOfTheSignedInUser ==
    authProfile # Null =>
        /\ authUser \in Users
        /\ authProfile \in ProfileRows(Get(authUser, "id"))

\* A profile load answered after its user signed out, or after another
\* user signed in.
C26_Witness ==
    /\ authProfile \in ProfileRows(Str(U1))
    /\ authUser \in {Null, User(U2), User(U3)}

\* The steps of handleSubmit and of the answers to its insert, as C28
\* states them, but for the loading flag after a submit with a field
\* missing.
SubmitSteps ==
    /\ handleSubmit /\ FieldsMissing(ndForm)
          => /\ ndError' = Str(RequiredFieldsMessage)
             /\ ndPending' = ndPending
             /\ path' = path
    /\ handleSubmit /\ ~FieldsMissing(ndForm)
          => /\ ndPending' = ndPending + 1
             /\ ndError' = Null
             /\ ndLoading' = TRUE
             /\ path' = path
    /\ ndPending' > ndPending => handleSubmit /\ ~FieldsMissing(ndForm)
    /\ InsertAnswers => path' = RecordPath(NewDogId) /\ ndLoading' = FALSE
    /\ InsertFails => path' = path /\ Truthy(ndError') /\ ndLoading' = FALSE
    /\ path' # path /\ path' = RecordPath(NewDogId) /\ ndPending + ndOrphans > 0
          /\ ndPending' + ndOrphans' < ndPending + ndOrphans
          => InsertAnswers \/ OrphanInsertAnswers

\* C28 as stated: handleSubmit with dog_code or name empty after trimming
\* sets the required-fields error, sends no insert, does not navigate and
\* leaves loading false; with both present it sends exactly one insert,
\* navigates to /records/<new id> only when the insert succeeds, sets the
\* error without navigating when it fails, and loading is false again in
\* both cases.
C28_SubmitAsStated ==
    [][/\ SubmitSteps
       /\ handleSubmit /\ FieldsMissing(ndForm) => ndLoading' = FALSE]_vars

\* C28 amended: as stated, but a submit with a field missing leaves loading
\* as it was, which is false unless an earlier insert of the form is still
\* in flight; loading is false whenever no insert of the form is in flight.
C28_SubmitLeavesLoadingAsItWas ==
    /\ [](ndPending = 0 => ndLoading = FALSE)
    /\ [][/\ SubmitSteps
          /\ handleSubmit /\ FieldsMissing(ndForm) => ndLoading' = ndLoading]_vars

\* A submit with a field missing while an earlier insert is in flight.
C28_Witness ==
    /\ ndError = Str(RequiredFieldsMessage)
    /\ FieldsMissing(ndForm)
    /\ ndLoading = TRUE
    /\ ndPending > 0

\* C29: loading of the auth context starts true, becomes false once the
\* initialisation has finished (with or without a backend client, with or
\* without a session, whether or not the profile loads), and never returns
\* to true.
C29_LoadingEndsAndStaysEnded ==
    /\ authLoading = TRUE
    /\ <>(authLoading = FALSE)
    /\ [](authPc = "done" => authLoading = FALSE)
    /\ [][authLoading = FALSE => authLoading' = FALSE]_vars

C29_Witness ==
    /\ authPc = "done"
    /\ authLoading = FALSE
    /\ authUser = User(U3)
    /\ authProfile = Null
    /\ profileLoads = EmptyBag

=============================================================================
